---- MODULE Spec2Model ----
(***************************************************************************)
(* Model of src/algorithm_visualizer.py: the AlgorithmVisualizer run /      *)
(* pause / step / stop controller, its worker threads, and the nine         *)
(* instrumented sorting algorithms; and of the generator bubble_sort_steps  *)
(* of src/bubble_sort_visual.py.                                            *)
(*                                                                          *)
(* Python list indices are kept 0-based in the locals; At/Put translate to  *)
(* the 1-based TLA+ sequences.  A worker is modelled from one call of       *)
(* visualize_step to the next: the code between two calls never blocks and  *)
(* is one step of the worker (a "segment").                                 *)
(***************************************************************************)
EXTENDS Integers, Sequences, FiniteSets, TLC

(* ------------------------------ bounds -------------------------------- *)
\* longest array of the controller's runs
MaxLen == 3
\* longest array of the uninterrupted runs (SpecSort)
SortLen == 4
\* the array values are 1..MaxVal and, for a second radix digit, 10 + MaxVal
MaxVal == 2
\* parts of the short texts typed into the import dialog
MaxParts == 2
\* worker threads launched in one behaviour
MaxWorkers == 2
\* Step() calls counted per run
MaxSteps == 3

Values == (1..MaxVal) \cup {10 + MaxVal}

RECURSIVE SeqsUpTo(_)
SeqsUpTo(n) ==
    IF n = 0 THEN {<<>>}
    ELSE LET S == SeqsUpTo(n - 1) IN
         S \cup {Append(s, v) : s \in {t \in S : Len(t) = n - 1}, v \in Values}

Algorithms == {"Bubble Sort", "Selection Sort", "Insertion Sort", "Merge Sort",
               "Quick Sort", "Heap Sort", "Counting Sort", "Radix Sort",
               "Shell Sort"}

(* ------------------------- sequences as lists -------------------------- *)
At(a, idx) == a[idx + 1]
Put(a, idx, v) == [a EXCEPT ![idx + 1] = v]
Swap(a, x, y) == [a EXCEPT ![x + 1] = a[y + 1], ![y + 1] = a[x + 1]]
Slice(a, lo, hi) == SubSeq(a, lo + 1, hi)

IsSorted(a) == \A x \in 1..(Len(a) - 1) : a[x] <= a[x + 1]
Count(a, v) == Cardinality({x \in 1..Len(a) : a[x] = v})
IsPerm(a, b) ==
    /\ Len(a) = Len(b)
    /\ \A x \in 1..Len(a) : Count(a, a[x]) = Count(b, a[x])

MaxOf(a) == CHOOSE v \in {a[x] : x \in 1..Len(a)} :
                \A y \in 1..Len(a) : a[y] <= v

(* --------------------------- the machine ------------------------------- *)
(* The algorithm-side state one worker owns (its position and locals)      *)
(* together with the shared array and counters it reads and writes.        *)
(*   pc   the visualize_step call the worker is in, or "return"            *)
(*   i j k g key flag la ra stk   locals; which local each one stands for  *)
(*        is said at each algorithm                                        *)
(*   ev wr   history: the element-with-element comparisons the algorithm   *)
(*        has evaluated, and the writes it has made to self.array (a swap  *)
(*        statement or a single-cell assignment is one write)              *)
Machine0(a, c, s) ==
    [pc |-> "start", i |-> 0, j |-> 0, k |-> 0, g |-> 0, key |-> 0,
     flag |-> FALSE, la |-> <<>>, ra |-> <<>>, stk |-> <<>>,
     arr |-> a, cmp |-> c, swp |-> s, ev |-> 0, wr |-> 0]

Site(m, s) == [m EXCEPT !.pc = s]
Return(m) == [m EXCEPT !.pc = "return"]
\* an element comparison was evaluated / self.array was written
Evaluated(m) == [m EXCEPT !.ev = m.ev + 1]
Written(m) == [m EXCEPT !.wr = m.wr + 1]

(* ---------------------------- bubble_sort ------------------------------ *)
\* i, j: loop indices; flag: swapped
BubbleOuter(m) ==
    IF m.i < Len(m.arr) THEN Site(m, "b4") ELSE Return(m)

\* lines 1019-1022 left out: the next pass starts whatever the last one did
BubbleAfterInnerNoExit(m) ==
    BubbleOuter([m EXCEPT !.i = m.i + 1])

BubbleAfterInner(m) ==
    IF ~m.flag THEN Site(m, "b11")
    ELSE BubbleOuter([m EXCEPT !.i = m.i + 1])

\* line 995 with a range one shorter: the last pair of a pass is skipped
BubbleInnerStopsShort(m) ==
    IF m.j < Len(m.arr) - m.i - 2
    THEN Site([m EXCEPT !.cmp = m.cmp + 1], "b7")
    ELSE BubbleAfterInner(m)

BubbleInner(m) ==
    IF m.j < Len(m.arr) - m.i - 1
    THEN Site([m EXCEPT !.cmp = m.cmp + 1], "b7")
    ELSE BubbleAfterInner(m)

\* line 1009 with >= for >: equal neighbours are swapped too
BubbleCompareSwapsTies(m) ==
    IF At(m.arr, m.j) >= At(m.arr, m.j + 1)
    THEN Site(Written(Evaluated(
                  [m EXCEPT !.arr = Swap(m.arr, m.j, m.j + 1),
                            !.swp = m.swp + 1, !.flag = TRUE])), "b8")
    ELSE BubbleInner(Evaluated([m EXCEPT !.j = m.j + 1]))

BubbleCompare(m) ==
    IF At(m.arr, m.j) > At(m.arr, m.j + 1)
    THEN Site(Written(Evaluated(
                  [m EXCEPT !.arr = Swap(m.arr, m.j, m.j + 1),
                            !.swp = m.swp + 1, !.flag = TRUE])), "b8")
    ELSE BubbleInner(Evaluated([m EXCEPT !.j = m.j + 1]))

BubbleResume(m, ret) ==
    CASE m.pc = "b4" ->
           IF ~ret THEN Return(m)
           ELSE BubbleInner([m EXCEPT !.flag = FALSE, !.j = 0])
      [] m.pc = "b7" -> IF ~ret THEN Return(m) ELSE BubbleCompare(m)
      [] m.pc = "b8" ->
           IF ~ret THEN Return(m) ELSE BubbleInner([m EXCEPT !.j = m.j + 1])
      [] m.pc = "b11" -> Return(m)

bubble_sort(m) == BubbleOuter([m EXCEPT !.i = 0])

(* --------------------------- selection_sort ---------------------------- *)
\* i, j: loop indices; key: min_idx
SelOuter(m) ==
    IF m.i < Len(m.arr) THEN Site(m, "s4") ELSE Return(m)

SelAfterInner(m) ==
    IF m.key # m.i
    THEN Site(Written([m EXCEPT !.arr = Swap(m.arr, m.i, m.key),
                                !.swp = m.swp + 1]), "s9")
    ELSE SelOuter([m EXCEPT !.i = m.i + 1])

SelInner(m) ==
    IF m.j < Len(m.arr)
    THEN Site([m EXCEPT !.cmp = m.cmp + 1], "s7")
    ELSE SelAfterInner(m)

\* lines 1046-1047 exchanging at once: a smaller element found by the scan
\* is swapped into position i during the scan
SelCompareSwapsAtOnce(m) ==
    IF At(m.arr, m.j) < At(m.arr, m.key)
    THEN Site(Written(Evaluated([m EXCEPT !.arr = Swap(m.arr, m.i, m.j),
                                          !.swp = m.swp + 1])), "s8")
    ELSE SelInner(Evaluated([m EXCEPT !.j = m.j + 1]))

SelCompare(m) ==
    IF At(m.arr, m.j) < At(m.arr, m.key)
    THEN Site(Evaluated([m EXCEPT !.key = m.j]), "s8")
    ELSE SelInner(Evaluated([m EXCEPT !.j = m.j + 1]))

SelResume(m, ret) ==
    CASE m.pc = "s4" ->
           IF ~ret THEN Return(m)
           ELSE SelInner([m EXCEPT !.key = m.i, !.j = m.i + 1])
      [] m.pc = "s7" -> IF ~ret THEN Return(m) ELSE SelCompare(m)
      [] m.pc = "s8" ->
           IF ~ret THEN Return(m) ELSE SelInner([m EXCEPT !.j = m.j + 1])
      [] m.pc = "s9" ->
           IF ~ret THEN Return(m) ELSE SelOuter([m EXCEPT !.i = m.i + 1])

selection_sort(m) == SelOuter([m EXCEPT !.i = 0])

(* --------------------------- insertion_sort ---------------------------- *)
\* i, j: loop indices; key: key
InsOuter(m) ==
    IF m.i < Len(m.arr) THEN Site(m, "i3") ELSE Return(m)

\* line 1068: self.array[j] > key is evaluated whenever j >= 0
InsTested(m) == IF m.j >= 0 THEN Evaluated(m) ELSE m

InsWhile(m) ==
    IF m.j >= 0 /\ At(m.arr, m.j) > m.key
    THEN Site(InsTested([m EXCEPT !.cmp = m.cmp + 1]), "i6")
    ELSE Site(Written(InsTested(
                  [m EXCEPT !.arr = Put(m.arr, m.j + 1, m.key)])), "i9")

InsShift(m) ==
    Site(Written([m EXCEPT !.arr = Put(m.arr, m.j + 1, At(m.arr, m.j)),
                           !.swp = m.swp + 1]), "i7")

InsResume(m, ret) ==
    CASE m.pc = "i3" ->
           IF ~ret THEN Return(m)
           ELSE InsWhile([m EXCEPT !.key = At(m.arr, m.i), !.j = m.i - 1])
      [] m.pc = "i6" -> IF ~ret THEN Return(m) ELSE InsShift(m)
      [] m.pc = "i7" ->
           IF ~ret THEN Return(m) ELSE InsWhile([m EXCEPT !.j = m.j - 1])
      [] m.pc = "i9" ->
           IF ~ret THEN Return(m) ELSE InsOuter([m EXCEPT !.i = m.i + 1])

insertion_sort(m) == InsOuter([m EXCEPT !.i = 1])

(* ----------------------- merge_sort and merge --------------------------- *)
\* stk: the pending merge_sort calls, innermost last, as [l, r, p, st]:
\*      st = 1 while merge_sort(left, mid) runs, 2 while merge_sort(mid + 1,
\*      right) runs.  i, j, k: merge's indices; la, ra: left_arr, right_arr.
\* run is the value of self.is_running the segment reads.
Mid(l, r) == (l + r) \div 2
Push(m, f) == [m EXCEPT !.stk = Append(m.stk, f)]
Pop(m) == [m EXCEPT !.stk = SubSeq(m.stk, 1, Len(m.stk) - 1)]
Top(m) == m.stk[Len(m.stk)]
SetTop(m, f) == [m EXCEPT !.stk[Len(m.stk)] = f]

RECURSIVE MergeSortCall(_, _, _, _)
RECURSIVE MergeSortReturn(_, _)

MergeLoop3(m, run) ==
    IF m.j < Len(m.ra) /\ run
    THEN Site(Written([m EXCEPT !.arr = Put(m.arr, m.k, At(m.ra, m.j)),
                                !.swp = m.swp + 1, !.j = m.j + 1,
                                !.k = m.k + 1]), "m14b")
    ELSE MergeSortReturn(m, run)

MergeLoop2(m, run) ==
    IF m.i < Len(m.la) /\ run
    THEN Site(Written([m EXCEPT !.arr = Put(m.arr, m.k, At(m.la, m.i)),
                                !.swp = m.swp + 1, !.i = m.i + 1,
                                !.k = m.k + 1]), "m12b")
    ELSE MergeLoop3(m, run)

MergeLoop1(m, run) ==
    IF m.i < Len(m.la) /\ m.j < Len(m.ra) /\ run
    THEN Site([m EXCEPT !.cmp = m.cmp + 1], "m11")
    ELSE MergeLoop2(m, run)

\* line 1120 with < for <=: the right element is taken on a tie
MergeTakesRightOnTie(m) == At(m.la, m.i) < At(m.ra, m.j)

\* line 1120: left preferred on a tie
MergeTakesLeft(m) == At(m.la, m.i) <= At(m.ra, m.j)

MergeCompare(m) ==
    IF MergeTakesLeft(m)
    THEN Site(Written(Evaluated(
                  [m EXCEPT !.arr = Put(m.arr, m.k, At(m.la, m.i)),
                            !.i = m.i + 1])), "m12a")
    ELSE Site(Written(Evaluated(
                  [m EXCEPT !.arr = Put(m.arr, m.k, At(m.ra, m.j)),
                            !.j = m.j + 1])), "m14a")

merge(m, left, mid, right, run) ==
    MergeLoop1([m EXCEPT !.la = Slice(m.arr, left, mid + 1),
                         !.ra = Slice(m.arr, mid + 1, right + 1),
                         !.i = 0, !.j = 0, !.k = left], run)

MergeSortCall(m, left, right, run) ==
    IF left < right /\ run
    THEN MergeSortCall(Push(m, [l |-> left, r |-> right, p |-> 0, st |-> 1]),
                       left, Mid(left, right), run)
    ELSE MergeSortReturn(m, run)

MergeSortReturn(m, run) ==
    IF m.stk = <<>> THEN Return(m)
    ELSE LET f == Top(m) IN
         IF f.st = 1
         THEN MergeSortCall(SetTop(m, [f EXCEPT !.st = 2]),
                            Mid(f.l, f.r) + 1, f.r, run)
         ELSE merge(Pop(m), f.l, Mid(f.l, f.r), f.r, run)

MergeResume(m, ret, run) ==
    CASE m.pc = "m11" ->
           IF ~ret THEN MergeSortReturn(m, run) ELSE MergeCompare(m)
      [] m.pc \in {"m12a", "m14a"} ->
           IF ~ret THEN MergeSortReturn(m, run)
           ELSE MergeLoop1([m EXCEPT !.swp = m.swp + 1, !.k = m.k + 1], run)
      [] m.pc = "m12b" ->
           IF ~ret THEN MergeSortReturn(m, run) ELSE MergeLoop2(m, run)
      [] m.pc = "m14b" ->
           IF ~ret THEN MergeSortReturn(m, run) ELSE MergeLoop3(m, run)

merge_sort(m, run) == MergeSortCall(m, 0, Len(m.arr) - 1, run)

(* ----------------------- quick_sort and partition ---------------------- *)
\* stk: the pending quick_sort calls as [l, r, p, st] with p = pivot_idx:
\*      st = 1 while quick_sort(low, p - 1) runs, 2 while quick_sort(p + 1,
\*      high) runs.  partition: k = low, g = high, key = pivot, i, j.
RECURSIVE QuickSortCall(_, _, _, _)
RECURSIVE QuickSortReturn(_, _)

PartitionLoop(m) ==
    IF m.j < m.g
    THEN Site([m EXCEPT !.cmp = m.cmp + 1], "q11")
    ELSE Site(Written([m EXCEPT !.arr = Swap(m.arr, m.i + 1, m.g),
                                !.swp = m.swp + 1]), "q13")

\* line 1178 with < for <=: elements equal to the pivot stay on the right
PartitionCompareStrict(m) ==
    IF At(m.arr, m.j) < m.key
    THEN Site(Written(Evaluated(
                  [m EXCEPT !.i = m.i + 1,
                            !.arr = Swap(m.arr, m.i + 1, m.j),
                            !.swp = m.swp + 1])), "q12")
    ELSE PartitionLoop(Evaluated([m EXCEPT !.j = m.j + 1]))

PartitionCompare(m) ==
    IF At(m.arr, m.j) <= m.key
    THEN Site(Written(Evaluated(
                  [m EXCEPT !.i = m.i + 1,
                            !.arr = Swap(m.arr, m.i + 1, m.j),
                            !.swp = m.swp + 1])), "q12")
    ELSE PartitionLoop(Evaluated([m EXCEPT !.j = m.j + 1]))

partition(m, low, high) ==
    Site([m EXCEPT !.key = At(m.arr, high), !.i = low - 1,
                   !.k = low, !.g = high], "q9")

QuickSortCall(m, low, high, run) ==
    IF low < high /\ run THEN partition(m, low, high)
    ELSE QuickSortReturn(m, run)

QuickSortReturn(m, run) ==
    IF m.stk = <<>> THEN Return(m)
    ELSE LET f == Top(m) IN
         IF f.st = 1
         THEN QuickSortCall(SetTop(m, [f EXCEPT !.st = 2]), f.p + 1, f.r, run)
         ELSE QuickSortReturn(Pop(m), run)

QuickResume(m, ret, run) ==
    CASE m.pc = "q9" ->
           IF ~ret THEN QuickSortReturn(m, run)
           ELSE PartitionLoop([m EXCEPT !.j = m.k])
      [] m.pc = "q11" ->
           IF ~ret THEN QuickSortReturn(m, run) ELSE PartitionCompare(m)
      [] m.pc = "q12" ->
           IF ~ret THEN QuickSortReturn(m, run)
           ELSE PartitionLoop([m EXCEPT !.j = m.j + 1])
      [] m.pc = "q13" ->
           IF ~ret THEN QuickSortReturn(m, run)
           ELSE QuickSortCall(
                    Push(m, [l |-> m.k, r |-> m.g, p |-> m.i + 1, st |-> 1]),
                    m.k, m.i, run)

quick_sort(m, run) == QuickSortCall(m, 0, Len(m.arr) - 1, run)

(* ------------------------ heap_sort and heapify ------------------------ *)
\* k: heap_sort's loop index; flag: TRUE in the build loop, FALSE in the
\* extraction loop.  heapify(n, i): g = n, i = i, key = largest.  heapify's
\* recursive call is its last statement, so its return is the caller's.
\* heapify ignores what visualize_step returns (lines 1227, 1234, 1243).
RECURSIVE HeapBuild(_, _)
RECURSIVE HeapExtract(_, _)
RECURSIVE heapify(_, _, _, _)

HeapifyReturn(m, run) ==
    IF m.flag THEN HeapBuild([m EXCEPT !.k = m.k - 1], run)
    ELSE HeapExtract([m EXCEPT !.k = m.k - 1], run)

HeapifySwap(m) ==
    IF m.key # m.i
    THEN Site(Written([m EXCEPT !.arr = Swap(m.arr, m.i, m.key),
                                !.swp = m.swp + 1]), "h17")
    ELSE m

\* heapify without lines 1232-1236: the right child is never looked at
HeapifyRightSkipped(m) == HeapifySwap(m)

HeapifyRight(m) ==
    IF 2 * m.i + 2 < m.g
    THEN Site([m EXCEPT !.cmp = m.cmp + 1], "h14")
    ELSE HeapifySwap(m)

\* heapify without lines 1224-1229: the left child is never looked at
HeapifyLeftSkipped(m) == HeapifyRight(m)

HeapifyLeft(m) ==
    IF 2 * m.i + 1 < m.g
    THEN Site([m EXCEPT !.cmp = m.cmp + 1], "h12")
    ELSE HeapifyRight(m)

\* a heapify segment that ends without a further call returns to heap_sort
HeapifyGo(m, run) == IF m.pc = "seg" THEN HeapifyReturn(m, run) ELSE m

heapify(m, n, i, run) ==
    HeapifyGo(HeapifyLeft([m EXCEPT !.g = n, !.i = i, !.key = i,
                                    !.pc = "seg"]), run)

HeapBuild(m, run) ==
    IF m.k >= 0 THEN heapify([m EXCEPT !.flag = TRUE], Len(m.arr), m.k, run)
    ELSE HeapExtract([m EXCEPT !.k = Len(m.arr) - 1], run)

HeapExtract(m, run) ==
    IF m.k >= 1
    THEN IF ~run THEN Return(m)
         ELSE Site(Written([m EXCEPT !.arr = Swap(m.arr, 0, m.k),
                                     !.swp = m.swp + 1]), "h7")
    ELSE Return(m)

HeapResume(m, ret, run) ==
    CASE m.pc = "h4" ->
           IF ~ret THEN Return(m)
           ELSE HeapBuild([m EXCEPT !.k = (Len(m.arr) \div 2) - 1], run)
      [] m.pc = "h7" ->
           IF ~ret THEN Return(m)
           ELSE heapify([m EXCEPT !.flag = FALSE], m.k, 0, run)
      [] m.pc = "h12" ->
           HeapifyGo(HeapifyRight(
               [Evaluated(m) EXCEPT !.pc = "seg",
                         !.key = IF At(m.arr, 2 * m.i + 1) > At(m.arr, m.key)
                                 THEN 2 * m.i + 1 ELSE m.key]), run)
      [] m.pc = "h14" ->
           HeapifyGo(HeapifySwap(
               [Evaluated(m) EXCEPT !.pc = "seg",
                         !.key = IF At(m.arr, 2 * m.i + 2) > At(m.arr, m.key)
                                 THEN 2 * m.i + 2 ELSE m.key]), run)
      [] m.pc = "h17" -> heapify(m, m.g, m.key, run)

heap_sort(m) == Site(m, "h4")

(* ---------------------------- counting_sort ---------------------------- *)
\* la: count (count[v] is la[v + 1]); k: idx; j: val
CountOccurrences(a) ==
    [v \in 1..(MaxOf(a) + 1) |-> Count(a, v - 1)]

\* line 1264-1265: the next val whose while loop is entered
CountingLoop(m, run) ==
    LET todo == {v \in m.j..(Len(m.la) - 1) : At(m.la, v) > 0} IN
    IF ~run \/ todo = {} THEN Return(m)
    ELSE LET v == CHOOSE x \in todo : \A y \in todo : x <= y IN
         Site(Written([m EXCEPT !.j = v, !.arr = Put(m.arr, m.k, v),
                                !.swp = m.swp + 1,
                                !.la = Put(m.la, v, At(m.la, v) - 1)]),
              "c10")

CountingResume(m, ret, run) ==
    CASE m.pc = "c5" ->
           IF ~ret THEN Return(m)
           ELSE CountingLoop([m EXCEPT !.la = CountOccurrences(m.arr),
                                       !.cmp = m.cmp + Len(m.arr),
                                       !.k = 0, !.j = 0], run)
      [] m.pc = "c10" ->
           IF ~ret THEN Return(m)
           ELSE CountingLoop([m EXCEPT !.k = m.k + 1], run)

counting_sort(m) == IF m.arr = <<>> THEN Return(m) ELSE Site(m, "c5")

(* -------------------- radix_sort, counting_sort_by_digit --------------- *)
\* key: max_val; g: exp; i: loop index; la: count; ra: output
Digit(v, exp) == (v \div exp) % 10

\* lines 1303-1304: count after the prefix sums, from the digit counts
PrefixSums(a, exp) ==
    [d \in 1..10 |->
        Cardinality({x \in 1..Len(a) : Digit(a[x], exp) <= d - 1})]

\* lines 1306-1309 with the loop running from 0 to n - 1: elements with the
\* same digit come out in reverse order
OutputIndexLeftToRight(a, exp, i) ==
    At(PrefixSums(a, exp), Digit(At(a, i), exp)) - 1
      - Cardinality({x \in 0..(i - 1) :
                        Digit(At(a, x), exp) = Digit(At(a, i), exp)})

\* lines 1306-1309: the position output gets array[i] at, filling right to left
OutputIndex(a, exp, i) ==
    At(PrefixSums(a, exp), Digit(At(a, i), exp)) - 1
      - Cardinality({x \in (i + 1)..(Len(a) - 1) :
                        Digit(At(a, x), exp) = Digit(At(a, i), exp)})

BuildOutput(a, exp) ==
    [p \in 1..Len(a) |->
        At(a, CHOOSE i \in 0..(Len(a) - 1) : OutputIndex(a, exp, i) = p - 1)]

RECURSIVE RadixLoop(_, _)

DigitCopyBack(m, run) ==
    IF m.i < Len(m.arr)
    THEN IF ~run THEN RadixLoop([m EXCEPT !.g = m.g * 10], run)
         ELSE Site(Written([m EXCEPT !.arr = Put(m.arr, m.i, At(m.ra, m.i))]),
                   "r13")
    ELSE RadixLoop([m EXCEPT !.g = m.g * 10], run)

DigitCount(m, run) ==
    IF m.i < Len(m.arr)
    THEN Site([m EXCEPT !.cmp = m.cmp + 1], "r11")
    ELSE DigitCopyBack([m EXCEPT !.ra = BuildOutput(m.arr, m.g),
                                 !.swp = m.swp + Len(m.arr),
                                 !.i = 0], run)

counting_sort_by_digit(m, run) == DigitCount([m EXCEPT !.i = 0], run)

RadixLoop(m, run) ==
    IF m.key \div m.g > 0 /\ run THEN counting_sort_by_digit(m, run)
    ELSE Return(m)

RadixResume(m, ret, run) ==
    CASE m.pc = "r11" ->
           IF ~ret THEN RadixLoop([m EXCEPT !.g = m.g * 10], run)
           ELSE DigitCount([m EXCEPT !.i = m.i + 1], run)
      [] m.pc = "r13" ->
           IF ~ret THEN RadixLoop([m EXCEPT !.g = m.g * 10], run)
           ELSE DigitCopyBack([m EXCEPT !.i = m.i + 1], run)

radix_sort(m, run) ==
    IF m.arr = <<>> THEN Return(m)
    ELSE RadixLoop([m EXCEPT !.key = MaxOf(m.arr), !.g = 1], run)

(* ------------------------------ shell_sort ----------------------------- *)
\* g: gap; i, j: loop indices; key: temp
ShellOuter(m, run) ==
    IF m.g > 0 /\ run THEN Site(m, "sh5") ELSE Return(m)

\* line 1333: self.array[j - gap] > temp is evaluated whenever j >= gap
ShellTested(m) == IF m.j >= m.g THEN Evaluated(m) ELSE m

ShellWhile(m, run) ==
    IF m.j >= m.g /\ At(m.arr, m.j - m.g) > m.key /\ run
    THEN Site(ShellTested([m EXCEPT !.cmp = m.cmp + 1]), "sh9")
    ELSE Site(Written(ShellTested(
                  [m EXCEPT !.arr = Put(m.arr, m.j, m.key)])), "sh12")

ShellFor(m, run) ==
    IF m.i < Len(m.arr)
    THEN ShellWhile([m EXCEPT !.key = At(m.arr, m.i), !.j = m.i], run)
    ELSE ShellOuter([m EXCEPT !.g = m.g \div 2], run)

ShellResume(m, ret, run) ==
    CASE m.pc = "sh5" ->
           IF ~ret THEN Return(m) ELSE ShellFor([m EXCEPT !.i = m.g], run)
      [] m.pc = "sh9" ->
           IF ~ret THEN Return(m)
           ELSE Site(Written(
                         [m EXCEPT !.arr = Put(m.arr, m.j, At(m.arr, m.j - m.g)),
                                   !.swp = m.swp + 1]), "sh10")
      [] m.pc = "sh10" ->
           IF ~ret THEN Return(m)
           ELSE ShellWhile([m EXCEPT !.j = m.j - m.g], run)
      [] m.pc = "sh12" ->
           IF ~ret THEN Return(m) ELSE ShellFor([m EXCEPT !.i = m.i + 1], run)

shell_sort(m, run) == ShellOuter([m EXCEPT !.g = Len(m.arr) \div 2], run)

(* ------------------------- run_algorithm's table ----------------------- *)
\* lines 595-608: the algorithm, from its entry to its first visualize_step
AlgStart(alg, m, run) ==
    CASE alg = "Bubble Sort" -> bubble_sort(m)
      [] alg = "Selection Sort" -> selection_sort(m)
      [] alg = "Insertion Sort" -> insertion_sort(m)
      [] alg = "Merge Sort" -> merge_sort(m, run)
      [] alg = "Quick Sort" -> quick_sort(m, run)
      [] alg = "Heap Sort" -> heap_sort(m)
      [] alg = "Counting Sort" -> counting_sort(m)
      [] alg = "Radix Sort" -> radix_sort(m, run)
      [] alg = "Shell Sort" -> shell_sort(m, run)

\* the algorithm, from visualize_step returning ret to its next call
AlgResume(alg, m, ret, run) ==
    CASE alg = "Bubble Sort" -> BubbleResume(m, ret)
      [] alg = "Selection Sort" -> SelResume(m, ret)
      [] alg = "Insertion Sort" -> InsResume(m, ret)
      [] alg = "Merge Sort" -> MergeResume(m, ret, run)
      [] alg = "Quick Sort" -> QuickResume(m, ret, run)
      [] alg = "Heap Sort" -> HeapResume(m, ret, run)
      [] alg = "Counting Sort" -> CountingResume(m, ret, run)
      [] alg = "Radix Sort" -> RadixResume(m, ret, run)
      [] alg = "Shell Sort" -> ShellResume(m, ret, run)

\* the line_number argument of each visualize_step call
SiteLine(pc) ==
    CASE pc \in {"b4", "s4", "h4"} -> 4
      [] pc \in {"b7", "s7", "i7", "h7"} -> 7
      [] pc \in {"b8", "s8"} -> 8
      [] pc \in {"b11", "m11", "q11", "r11"} -> 11
      [] pc \in {"s9", "i9", "q9", "sh9"} -> 9
      [] pc = "i3" -> 3
      [] pc = "i6" -> 6
      [] pc \in {"m12a", "m12b", "q12", "h12", "sh12"} -> 12
      [] pc \in {"m14a", "m14b", "h14"} -> 14
      [] pc \in {"q13", "r13"} -> 13
      [] pc = "h17" -> 17
      [] pc \in {"c5", "sh5"} -> 5
      [] pc \in {"c10", "sh10"} -> 10

(* ------------- bubble_sort_steps (bubble_sort_visual.py) --------------- *)
(* The generator between two yields:                                        *)
(*   pc   "none" no generator; "created" not yet started; "compare", "swap",*)
(*        "done" suspended at that yield; "exhausted" returned              *)
(*   arr  the caller's list; a, passnum, j, made_swap  the locals           *)
(*   steps   the tuples (action, i, j, array_snapshot) yielded so far       *)
NoGen ==
    [pc |-> "none", arr |-> <<>>, a |-> <<>>, passnum |-> 0, j |-> 0,
     made_swap |-> FALSE, steps |-> <<>>]

\* yield (action, x, y, a) without .copy(): every snapshot is the working
\* list itself and shows what that list holds now
YieldWithoutCopy(g, action, x, y) ==
    [g EXCEPT !.pc = action,
              !.steps = Append([s \in 1..Len(g.steps) |->
                                   [g.steps[s] EXCEPT !.arr = g.a]],
                               [action |-> action, i |-> x, j |-> y,
                                arr |-> g.a])]

\* yield (action, x, y, a.copy())
Yield(g, action, x, y) ==
    [g EXCEPT !.pc = action,
              !.steps = Append(g.steps, [action |-> action, i |-> x, j |-> y,
                                         arr |-> g.a])]

RECURSIVE GenOuter(_)

\* lines 35-39
GenAfterInner(g) ==
    IF ~g.made_swap THEN Yield(g, "done", -1, -1)
    ELSE GenOuter([g EXCEPT !.passnum = g.passnum + 1])

\* line 27 with range(n - 1): every pass scans the whole list
GenInnerFullScan(g) ==
    IF g.j < Len(g.a) - 1
    THEN Yield(g, "compare", g.j, g.j + 1)
    ELSE GenAfterInner(g)

\* lines 27-29
GenInner(g) ==
    IF g.j < Len(g.a) - g.passnum - 1
    THEN Yield(g, "compare", g.j, g.j + 1)
    ELSE GenAfterInner(g)

\* lines 25-26 and 39
GenOuter(g) ==
    IF g.passnum < Len(g.a) - 1
    THEN GenInner([g EXCEPT !.made_swap = FALSE, !.j = 0])
    ELSE Yield(g, "done", -1, -1)

\* next(generator): the body runs from where it is to its next yield
GenResume(g) ==
    CASE g.pc = "created" ->
           LET g1 == [g EXCEPT !.a = g.arr] IN
           IF Len(g1.a) <= 1 THEN Yield(g1, "done", -1, -1)
           ELSE GenOuter([g1 EXCEPT !.passnum = 0])
      [] g.pc = "compare" ->
           IF At(g.a, g.j) > At(g.a, g.j + 1)
           THEN Yield([g EXCEPT !.a = Swap(g.a, g.j, g.j + 1),
                                !.made_swap = TRUE], "swap", g.j, g.j + 1)
           ELSE GenInner([g EXCEPT !.j = g.j + 1])
      [] g.pc = "swap" -> GenInner([g EXCEPT !.j = g.j + 1])
      [] g.pc = "done" -> [g EXCEPT !.pc = "exhausted"]

(* ============================ the controller =========================== *)
VARIABLES
    array,             \* self.array
    array_size,        \* self.array_size
    speed_var,         \* the speed slider's setting (self.speed_var)
    speed,             \* self.speed: the delay of line 834, in milliseconds
    gen,               \* the generator bubble_sort_steps(arr) of
                       \* bubble_sort_visual.py, its argument and the steps
                       \* it has yielded
    custom_entry,      \* the text in the import dialog's entry, as the parts
                       \* text.replace(",", " ").split() gives (lines 775-776);
                       \* <<>> while no dialog is open
    comparisons,       \* self.comparisons
    swaps,             \* self.swaps
    is_running,        \* self.is_running
    is_paused,         \* self.is_paused
    is_step_mode,      \* self.is_step_mode
    step_requested,    \* self.step_requested
    current_algorithm, \* self.current_algorithm
    current_step_line, \* self.current_step_line
    btn,               \* which widgets are enabled (state=tk.NORMAL / readonly)
    status,            \* the text of status_label
    afterq,            \* the queued root.after(0, ...) callbacks, oldest
                       \* first.  Those of a Step Event (lines 830-833) and
                       \* of line 628 only read the controller state: the
                       \* former are queued where scope.render says so, the
                       \* latter never
    ui,                \* the UI thread: "idle", "toggle" inside toggle_pause,
                       \* "dialog" while the import dialog is open, "error"
                       \* while the message box of line 804 is open over it
    workers,           \* the threads start_sorting / start_step_mode launched
    budget,            \* threads the model lets the behaviour still launch
    hist,              \* history of the current run (not program state):
                       \*   steps: while it is a single-step run (launched
                       \*          by step_once, no Pause/Resume or Stop
                       \*          since), its step_once calls, counted up
                       \*          to MaxSteps; else 0
                       \*   stopped: stop_sorting was the last user operation
                       \*   raised: an algorithm has raised and no user
                       \*          operation has followed
    scope              \* what the behaviour ranges over (never changes):
                       \*   arrays: the arrays generate_array draws from
                       \*   algs: the algorithms the dropdown offers
                       \*   render: the Step Event callbacks are queued
                       \*   texts: the texts the user types into the import
                       \*          dialog

vars == <<array, array_size, speed_var, speed, custom_entry, gen, comparisons, swaps, is_running, is_paused, is_step_mode,
          step_requested, current_algorithm, current_step_line, btn, status,
          afterq, ui, workers, budget, hist, scope>>

\* every variable of the program itself (all but the threads and the history)
fields == <<scope, array, array_size, speed_var, speed, custom_entry, gen,
            comparisons, swaps, is_running, is_paused, is_step_mode,
            step_requested, current_algorithm, current_step_line, btn, status,
            afterq, ui>>

Workers == 1..MaxWorkers

\* a worker's locals, without the shared array and counters
Locals(m) == [m EXCEPT !.arr = <<>>, !.cmp = 0, !.swp = 0]
NoLocals == Locals(Machine0(<<>>, 0, 0))
Load(w) == [workers[w].loc EXCEPT !.arr = array, !.cmp = comparisons,
                                  !.swp = swaps]

(* ph: "none" not launched; "start" launched; "stepwait" in the loop of     *)
(* line 816; "pausewait" in the loop of line 822; "sleep" in the sleep of   *)
(* line 834; "emit" past line 825, before line 829 (where the steps of      *)
(* lines 822-833 are taken one by one); "cancel" visualize_step is          *)
(* returning False; "anim" in                                               *)
(* completion_animation; "finally" at line 619; "dead" thread ended.        *)
(* input, delivered, seen, took, mode are history: the array at launch, the *)
(* Step Events delivered, whether a visualize_step returned False, whether  *)
(* the step loop was left on a step request not yet followed by an event,   *)
(* the launcher ("start" or "step"), the length in milliseconds of the     *)
(* sleep of line 834 the worker is in (0 outside it), and (where the steps  *)
(* of lines 822-833 are taken one by one) the Step Events the worker has    *)
(* delivered with is_paused set since it last slept in a wait loop.         *)
NoWorker ==
    [ph |-> "none", alg |-> "", loc |-> NoLocals, input |-> <<>>,
     delivered |-> 0, seen |-> FALSE, took |-> FALSE, mode |-> "",
     nap |-> 0, ran |-> 0]

Alive(w) == workers[w].ph \notin {"none", "dead"}
LiveWorkers == {w \in Workers : Alive(w)}

Arrays == {a \in SeqsUpTo(MaxLen) : Len(a) >= 2}

\* setup_control_panel: pause and stop start disabled (lines 259, 271)
Buttons0 ==
    [start |-> TRUE, generate |-> TRUE, pause |-> FALSE, stop |-> FALSE,
     step |-> TRUE, import |-> TRUE, algo |-> TRUE, size |-> TRUE]

\* a queued root.after(0, ...) callback.  For the callbacks of a Step Event
\* (lines 830-833) k, arr, cmp, swp, line are history: the event's number
\* and the array, counters and line_number when it was emitted.
Callback(name) ==
    [cb |-> name, k |-> 0, arr |-> <<>>, cmp |-> 0, swp |-> 0, line |-> 0]

InitScope(sc, launches) ==
    /\ scope = sc
    /\ array \in sc.arrays
    /\ array_size = Len(array)
    /\ speed_var = 50
    /\ speed = 50
    /\ custom_entry = <<>>
    /\ gen = NoGen
    /\ comparisons = 0
    /\ swaps = 0
    /\ is_running = FALSE
    /\ is_paused = FALSE
    /\ is_step_mode = FALSE
    /\ step_requested = FALSE
    /\ current_algorithm \in sc.algs
    /\ current_step_line = 0
    /\ btn = Buttons0
    /\ status = "Ready"
    /\ afterq = <<>>
    /\ ui = "idle"
    /\ workers = [w \in Workers |-> NoWorker]
    /\ budget = launches
    /\ hist = [steps |-> 0, stopped |-> FALSE, raised |-> FALSE]

(* A part of the entered text as int() takes it (line 781): num says       *)
(* whether int(part.strip()) returns a value, val, or raises ValueError.    *)
Part(v) == [num |-> TRUE, val |-> v]
NoNumber == [num |-> FALSE, val |-> 0]

\* the user types the numbers of an array
Entry(a) == [x \in 1..Len(a) |-> Part(a[x])]

InitWith(arrays, algs, launches) ==
    InitScope([arrays |-> arrays, algs |-> algs, render |-> FALSE,
               texts |-> {Entry(a) : a \in arrays}], launches)

Init == InitWith(Arrays, Algorithms, 1)

(* --------------------------- the UI thread ----------------------------- *)
\* threading.Thread(target=self.run_algorithm).start()
NextWorker == CHOOSE w \in Workers :
                  workers[w].ph = "none" /\ \A v \in 1..(w - 1) : workers[v].ph # "none"

Launch(mode) ==
    /\ budget > 0
    /\ budget' = budget - 1
    /\ workers' = [workers EXCEPT ![NextWorker] =
                      [NoWorker EXCEPT !.ph = "start", !.input = array,
                                       !.mode = mode]]

start_sorting ==
    /\ ui = "idle" /\ btn.start
    /\ ~is_running
    /\ is_running' = TRUE
    /\ is_paused' = FALSE
    /\ comparisons' = 0
    /\ swaps' = 0
    /\ btn' = [btn EXCEPT !.start = FALSE, !.generate = FALSE, !.pause = TRUE,
                          !.stop = TRUE, !.algo = FALSE, !.size = FALSE]
    /\ status' = "Sorting..."
    /\ Launch("start")
    /\ hist' = [steps |-> 0, stopped |-> FALSE, raised |-> FALSE]
    /\ UNCHANGED <<scope, gen, custom_entry, array_size, speed_var, speed, array, is_step_mode, step_requested, current_algorithm,
                   current_step_line, afterq, ui>>

\* start_step_mode without lines 674-675: the counters are not reset
start_step_mode_keeps_counters ==
    /\ ~is_running
    /\ is_running' = TRUE
    /\ is_paused' = TRUE
    /\ is_step_mode' = TRUE
    /\ step_requested' = TRUE
    /\ btn' = [btn EXCEPT !.start = FALSE, !.generate = FALSE,
                          !.import = FALSE, !.pause = TRUE, !.stop = TRUE,
                          !.algo = FALSE, !.size = FALSE]
    /\ status' = "Step Mode"
    /\ Launch("step")
    /\ hist' = [steps |-> 1, stopped |-> FALSE, raised |-> FALSE]
    /\ UNCHANGED <<scope, gen, custom_entry, array_size, speed_var, speed, array, comparisons, swaps, current_algorithm,
                   current_step_line, afterq, ui>>

start_step_mode ==
    /\ ~is_running
    /\ is_running' = TRUE
    /\ is_paused' = TRUE
    /\ is_step_mode' = TRUE
    /\ step_requested' = TRUE
    /\ comparisons' = 0
    /\ swaps' = 0
    /\ btn' = [btn EXCEPT !.start = FALSE, !.generate = FALSE,
                          !.import = FALSE, !.pause = TRUE, !.stop = TRUE,
                          !.algo = FALSE, !.size = FALSE]
    /\ status' = "Step Mode"
    /\ Launch("step")
    /\ hist' = [steps |-> 1, stopped |-> FALSE, raised |-> FALSE]
    /\ UNCHANGED <<scope, gen, custom_entry, array_size, speed_var, speed, array, current_algorithm, current_step_line, afterq, ui>>

\* lines 659-660
StepArms == is_running /\ is_paused

CountStep ==
    IF hist.steps > 0 /\ hist.steps < MaxSteps THEN hist.steps + 1
    ELSE hist.steps

step_once ==
    /\ ui = "idle" /\ btn.step
    /\ IF StepArms
       THEN /\ step_requested' = TRUE
            /\ hist' = [steps |-> CountStep, stopped |-> FALSE, raised |-> FALSE]
            /\ UNCHANGED <<scope, gen, custom_entry, array_size, speed_var, speed, array, comparisons, swaps, is_running,
                           is_paused, is_step_mode, current_algorithm,
                           current_step_line, btn, status, afterq, ui,
                           workers, budget>>
       ELSE IF ~is_running
       THEN start_step_mode
       ELSE /\ hist' = [hist EXCEPT !.stopped = FALSE, !.raised = FALSE]
            /\ UNCHANGED <<fields, workers, budget>>

\* toggle_pause writes is_paused first (line 645) and is_step_mode after the
\* widget updates (lines 650, 655): two steps of the UI thread
toggle_pause ==
    /\ ui = "idle" /\ btn.pause
    /\ is_paused' = ~is_paused
    /\ ui' = "toggle"
    /\ hist' = [steps |-> 0, stopped |-> FALSE, raised |-> FALSE]
    /\ UNCHANGED <<scope, gen, custom_entry, array_size, speed_var, speed, array, comparisons, swaps, is_running, is_step_mode,
                   step_requested, current_algorithm, current_step_line, btn,
                   status, afterq, workers, budget>>

toggle_pause_end ==
    /\ ui = "toggle"
    /\ is_step_mode' = is_paused
    /\ btn' = [btn EXCEPT !.step = is_paused]
    /\ status' = IF is_paused THEN "Paused" ELSE "Sorting..."
    /\ ui' = "idle"
    /\ UNCHANGED <<scope, gen, custom_entry, array_size, speed_var, speed, array, comparisons, swaps, is_running, is_paused,
                   step_requested, current_algorithm, current_step_line,
                   afterq, workers, budget, hist>>

stop_sorting ==
    /\ ui = "idle" /\ btn.stop
    /\ is_running' = FALSE
    /\ is_paused' = FALSE
    /\ is_step_mode' = FALSE
    /\ step_requested' = FALSE
    /\ status' = "Stopped"
    /\ hist' = [steps |-> 0, stopped |-> TRUE, raised |-> FALSE]
    /\ UNCHANGED <<scope, gen, custom_entry, array_size, speed_var, speed, array, comparisons, swaps, current_algorithm,
                   current_step_line, btn, afterq, ui, workers, budget>>

\* (the model replaces the array only while a thread can still be launched)
generate_array ==
    /\ ui = "idle" /\ btn.generate
    /\ budget > 0
    /\ ~is_running
    /\ array' \in scope.arrays
    /\ array_size' = Len(array')
    /\ comparisons' = 0
    /\ swaps' = 0
    /\ status' = "Ready"
    /\ hist' = [hist EXCEPT !.stopped = FALSE, !.raised = FALSE]
    /\ UNCHANGED <<scope, gen, custom_entry, speed_var, speed, is_running, is_paused, is_step_mode, step_requested,
                   current_algorithm, current_step_line, btn, afterq, ui,
                   workers, budget>>

\* line 742: the text the dialog opens with
DefaultEntry == Entry(<<64, 34, 25, 12, 22, 11, 90, 45, 33, 78>>)

Rejected == [ok |-> FALSE, numbers |-> <<>>]

\* the loop of lines 779-786 without lines 782-783: a number below 1 is taken
ParseLoopTakesAll(parts) ==
    IF \E x \in 1..Len(parts) : ~parts[x].num
    THEN Rejected
    ELSE [ok |-> TRUE,
          numbers |-> [x \in 1..Len(parts) |->
                          IF parts[x].val > 1000 THEN 1000
                          ELSE parts[x].val]]

\* lines 779-786: the loop over the parts raises at the first part that is
\* no number or is below 1, and else collects every number, 1000 for a
\* larger one
ParseLoop(parts) ==
    IF \E x \in 1..Len(parts) : ~parts[x].num \/ parts[x].val < 1
    THEN Rejected
    ELSE [ok |-> TRUE,
          numbers |-> [x \in 1..Len(parts) |->
                          IF parts[x].val > 1000 THEN 1000
                          ELSE parts[x].val]]

\* lines 778-791: the numbers of the text, or the ValueError
ParseNumbers(parts) ==
    LET p == ParseLoop(parts) IN
    IF ~p.ok \/ Len(p.numbers) < 2 THEN Rejected
    ELSE IF Len(p.numbers) > 200
    THEN [ok |-> TRUE, numbers |-> SubSeq(p.numbers, 1, 200)]
    ELSE p

\* lines 701-742: the Import button opens the dialog.  The dialog grabs the
\* input (line 711): until it is closed the user reaches no other control.
import_custom_array ==
    /\ ui = "idle" /\ btn.import
    /\ ~is_running
    /\ ui' = "dialog"
    /\ custom_entry' = DefaultEntry
    /\ hist' = [hist EXCEPT !.stopped = FALSE, !.raised = FALSE]
    /\ UNCHANGED <<scope, gen, array, array_size, speed_var, speed, comparisons,
                   swaps, is_running, is_paused, is_step_mode, step_requested,
                   current_algorithm, current_step_line, btn, status, afterq,
                   workers, budget>>

\* the user replaces the text of the entry
edit_custom_entry ==
    /\ ui = "dialog"
    /\ custom_entry' \in scope.texts \ {custom_entry}
    /\ UNCHANGED <<scope, gen, array, array_size, speed_var, speed, comparisons,
                   swaps, is_running, is_paused, is_step_mode, step_requested,
                   current_algorithm, current_step_line, btn, status, afterq,
                   ui, workers, budget, hist>>

\* lines 770-809: the dialog's Import button.  A valid text replaces the
\* array and closes the dialog; an invalid one opens the message box of
\* line 804 and changes nothing.  Under a live worker the model takes an
\* array of the same length only: with a shorter one the worker's next
\* access raises IndexError.
process_custom_array ==
    /\ ui = "dialog"
    /\ LET p == ParseNumbers(custom_entry) IN
       IF p.ok
       THEN /\ LiveWorkers = {} \/ Len(p.numbers) = Len(array)
            /\ array' = p.numbers
            /\ array_size' = Len(p.numbers)
            /\ comparisons' = 0
            /\ swaps' = 0
            /\ status' = "Array Imported"
            /\ ui' = "idle"
            /\ custom_entry' = <<>>
       ELSE /\ ui' = "error"
            /\ UNCHANGED <<array, array_size, comparisons, swaps, status,
                           custom_entry>>
    /\ UNCHANGED <<scope, gen, speed_var, speed, is_running, is_paused,
                   is_step_mode, step_requested, current_algorithm,
                   current_step_line, btn, afterq, workers, budget, hist>>

\* the user closes the message box of lines 804-808
showerror_closed ==
    /\ ui = "error"
    /\ ui' = "dialog"
    /\ UNCHANGED <<scope, gen, array, array_size, speed_var, speed, custom_entry,
                   comparisons, swaps, is_running, is_paused, is_step_mode,
                   step_requested, current_algorithm, current_step_line, btn,
                   status, afterq, workers, budget, hist>>

\* lines 759-768: the dialog's Cancel button
dialog_destroy ==
    /\ ui = "dialog"
    /\ ui' = "idle"
    /\ custom_entry' = <<>>
    /\ UNCHANGED <<scope, gen, array, array_size, speed_var, speed, comparisons,
                   swaps, is_running, is_paused, is_step_mode, step_requested,
                   current_algorithm, current_step_line, btn, status, afterq,
                   workers, budget, hist>>

(* bubble_sort_visual.py is a program of its own; the model lets it run on *)
(* the array the visualizer holds before a run.                             *)
\* bubble_sort_steps(arr) is called: the generator is created
bubble_sort_steps ==
    /\ gen.pc = "none"
    /\ gen' = [NoGen EXCEPT !.pc = "created", !.arr = array]
    /\ UNCHANGED <<scope, custom_entry, array, array_size, speed_var, speed,
                   comparisons, swaps, is_running, is_paused, is_step_mode,
                   step_requested, current_algorithm, current_step_line, btn,
                   status, afterq, ui, workers, budget, hist>>

\* the consumer (list(data), line 46; the for loop of main) takes the next
\* step
GenNext ==
    /\ gen.pc \in {"created", "compare", "swap", "done"}
    /\ gen' = GenResume(gen)
    /\ UNCHANGED <<scope, custom_entry, array, array_size, speed_var, speed,
                   comparisons, swaps, is_running, is_paused, is_step_mode,
                   step_requested, current_algorithm, current_step_line, btn,
                   status, afterq, ui, workers, budget, hist>>

\* lines 197-199: the speed slider runs from 1 to 100
Settings == 1..100

\* line 492 with 100 for 101
DelayMillisFrom100(s) == IF 1 > 100 - s THEN 1 ELSE 100 - s

\* line 492: max(1, 101 - speed)
DelayMillis(s) == IF 1 > 101 - s THEN 1 ELSE 101 - s

\* lines 489-492: the slider was moved to s = int(float(val)); the slider
\* is never disabled
on_speed_change(s) ==
    /\ ui = "idle"
    /\ speed_var' = s
    /\ speed' = DelayMillis(s)
    /\ hist' = [hist EXCEPT !.stopped = FALSE, !.raised = FALSE]
    /\ UNCHANGED <<scope, gen, custom_entry, array, array_size, comparisons, swaps,
                   is_running, is_paused, is_step_mode, step_requested,
                   current_algorithm, current_step_line, btn, status, afterq,
                   ui, workers, budget>>

\* (as for generate_array, only while a thread can still be launched)
on_algorithm_change ==
    /\ ui = "idle" /\ btn.algo
    /\ budget > 0
    /\ current_algorithm' \in scope.algs \ {current_algorithm}
    /\ hist' = [hist EXCEPT !.stopped = FALSE, !.raised = FALSE]
    /\ UNCHANGED <<scope, gen, custom_entry, array_size, speed_var, speed, array, comparisons, swaps, is_running, is_paused,
                   is_step_mode, step_requested, current_step_line, btn,
                   status, afterq, ui, workers, budget>>

\* reset_buttons without line 633: the Start button stays disabled
reset_buttons_start_disabled ==
    /\ btn' = [btn EXCEPT !.generate = TRUE, !.import = TRUE,
                          !.pause = FALSE, !.stop = FALSE, !.algo = TRUE,
                          !.size = TRUE]
    /\ is_step_mode' = FALSE
    /\ step_requested' = FALSE
    /\ UNCHANGED status

\* lines 631-641
reset_buttons ==
    /\ btn' = [btn EXCEPT !.start = TRUE, !.generate = TRUE, !.import = TRUE,
                          !.pause = FALSE, !.stop = FALSE, !.algo = TRUE,
                          !.size = TRUE]
    /\ is_step_mode' = FALSE
    /\ step_requested' = FALSE
    /\ UNCHANGED status

\* the Tk event loop runs the oldest queued callback
RunCallback ==
    /\ ui # "toggle" /\ afterq # <<>>
    /\ afterq' = Tail(afterq)
    /\ CASE Head(afterq).cb = "reset_buttons" -> reset_buttons
         [] Head(afterq).cb = "completed" ->
              /\ status' = "Completed!"
              /\ UNCHANGED <<btn, is_step_mode, step_requested>>
         [] Head(afterq).cb = "render" ->
              UNCHANGED <<btn, is_step_mode, step_requested, status>>
    /\ UNCHANGED <<scope, gen, custom_entry, array_size, speed_var, speed, array, comparisons, swaps, is_running, is_paused,
                   current_algorithm, current_step_line, ui, workers,
                   budget, hist>>

(* --------------------------- a worker thread --------------------------- *)
\* line 814: visualize_step takes the step-mode branch
StepGate == is_step_mode /\ is_paused
\* line 816: the step loop keeps sleeping
StepBlocks == ~step_requested /\ is_paused /\ is_running
\* line 822: the pause loop keeps sleeping
PauseBlocks == is_paused /\ is_running /\ ~is_step_mode

(* The worker leaves a segment with machine m2: the shared array and       *)
(* counters are as the segment left them; at a visualize_step call the     *)
(* worker evaluates line 814 (and clears step_requested, line 815); when   *)
(* the algorithm returned, run_algorithm evaluates line 610.               *)
AfterSegment(w, alg, m2) ==
    /\ array' = m2.arr
    /\ comparisons' = m2.cmp
    /\ swaps' = m2.swp
    /\ IF m2.pc = "return"
       THEN /\ workers' = [workers EXCEPT
                  ![w].ph = IF is_running THEN "anim" ELSE "finally",
                  ![w].alg = alg, ![w].nap = 0,
                  ![w].loc = IF is_running
                             THEN [NoLocals EXCEPT !.ev = m2.ev, !.wr = m2.wr]
                             ELSE NoLocals]
            /\ UNCHANGED step_requested
       ELSE IF StepGate
       THEN /\ workers' = [workers EXCEPT ![w].ph = "stepwait",
                                          ![w].alg = alg, ![w].nap = 0,
                                          ![w].loc = Locals(m2)]
            /\ step_requested' = FALSE
       ELSE /\ workers' = [workers EXCEPT ![w].ph = "pausewait",
                                          ![w].alg = alg, ![w].nap = 0,
                                          ![w].loc = Locals(m2)]
            /\ UNCHANGED step_requested
    /\ UNCHANGED <<scope, gen, custom_entry, array_size, speed_var, speed, is_running, is_paused, is_step_mode,
                   current_algorithm,
                   current_step_line, btn, status, afterq, ui, budget, hist>>

\* run_algorithm, lines 593-608: the thread starts the selected algorithm
WorkerBegin(w) ==
    /\ workers[w].ph = "start"
    /\ AfterSegment(w, current_algorithm,
                    AlgStart(current_algorithm,
                             Machine0(array, comparisons, swaps), is_running))

\* lines 816-819: the step loop ends; visualize_step goes on or returns False
StepWait(w) ==
    /\ workers[w].ph = "stepwait"
    /\ ~StepBlocks
    /\ workers' = [workers EXCEPT
          ![w].ph = IF is_running THEN "pausewait" ELSE "cancel",
          ![w].seen = workers[w].seen \/ ~is_running,
          ![w].took = is_running /\ step_requested]
    /\ UNCHANGED <<fields, budget, hist>>

\* lines 829-833: the three callbacks of the Step Event the worker hands to
\* the UI thread (highlight_code_line, draw_array, update_stats), which the
\* event loop runs one after the other
StepEvent(w) ==
    [cb |-> "render", k |-> workers[w].delivered + 1, arr |-> array,
     cmp |-> comparisons, swp |-> swaps,
     line |-> SiteLine(workers[w].loc.pc)]

\* lines 822-833: the pause loop ends; visualize_step returns False or hands
\* the Step Event to the UI thread
PauseWait(w) ==
    /\ workers[w].ph = "pausewait"
    /\ ~PauseBlocks
    /\ IF is_running
       THEN /\ current_step_line' = SiteLine(workers[w].loc.pc)
            /\ afterq' = IF scope.render THEN Append(afterq, StepEvent(w))
                         ELSE afterq
            /\ workers' = [workers EXCEPT
                  ![w].ph = "sleep", ![w].took = FALSE,
                  ![w].nap = speed,
                  ![w].delivered = workers[w].delivered + 1]
       ELSE /\ workers' = [workers EXCEPT ![w].ph = "cancel",
                                          ![w].took = FALSE,
                                          ![w].seen = TRUE]
            /\ UNCHANGED <<current_step_line, afterq>>
    /\ UNCHANGED <<scope, gen, custom_entry, array_size, speed_var, speed, array, comparisons, swaps, is_running, is_paused,
                   is_step_mode, step_requested, current_algorithm, btn,
                   status, ui, budget, hist>>

(* Lines 816-833 step by step, for the interleavings of the worker's reads  *)
(* with the two writes of toggle_pause.                                     *)
\* lines 816-817: the worker finds the step loop's condition true and sleeps
StepSleeps(w) ==
    /\ workers[w].ph = "stepwait"
    /\ StepBlocks
    /\ workers' = [workers EXCEPT ![w].ran = 0]
    /\ UNCHANGED <<fields, budget, hist>>

\* lines 822-823: the worker finds the pause loop's condition true and sleeps
PauseSleeps(w) ==
    /\ workers[w].ph = "pausewait"
    /\ PauseBlocks
    /\ workers' = [workers EXCEPT ![w].ran = 0]
    /\ UNCHANGED <<fields, budget, hist>>

\* lines 822-826: the pause loop ends; visualize_step returns False or goes
\* on to line 829
PauseCheck(w) ==
    /\ workers[w].ph = "pausewait"
    /\ ~PauseBlocks
    /\ workers' = [workers EXCEPT
          ![w].ph = IF is_running THEN "emit" ELSE "cancel",
          ![w].took = FALSE,
          ![w].seen = workers[w].seen \/ ~is_running]
    /\ UNCHANGED <<fields, budget, hist>>

\* lines 829-833: the worker hands the Step Event to the UI thread
Emit(w) ==
    /\ workers[w].ph = "emit"
    /\ current_step_line' = SiteLine(workers[w].loc.pc)
    /\ afterq' = IF scope.render THEN Append(afterq, StepEvent(w)) ELSE afterq
    /\ workers' = [workers EXCEPT
          ![w].ph = "sleep",
          ![w].nap = speed,
          ![w].delivered = workers[w].delivered + 1,
          ![w].ran = IF is_paused THEN workers[w].ran + 1 ELSE 0]
    /\ UNCHANGED <<scope, gen, custom_entry, array, array_size, speed_var, speed,
                   comparisons, swaps, is_running, is_paused, is_step_mode,
                   step_requested, current_algorithm, btn, status, ui, budget,
                   hist>>

\* lines 834-835: the sleep ends, visualize_step returns True and the
\* algorithm runs to its next visualize_step call
Sleep(w) ==
    /\ workers[w].ph = "sleep"
    /\ AfterSegment(w, workers[w].alg,
                    AlgResume(workers[w].alg, Load(w), TRUE, is_running))

\* visualize_step returned False (lines 819, 826): the algorithm runs on
\* from there
Cancel(w) ==
    /\ workers[w].ph = "cancel"
    /\ AfterSegment(w, workers[w].alg,
                    AlgResume(workers[w].alg, Load(w), FALSE, is_running))

\* lines 612-615 and 622-629: completion_animation (loc.i is its i), then
\* the "Completed!" callback
Animate(w) ==
    /\ workers[w].ph = "anim"
    /\ IF workers[w].loc.i < Len(array) /\ is_running
       THEN /\ UNCHANGED afterq
            /\ workers' = [workers EXCEPT
                  ![w].loc.i = workers[w].loc.i + 1]
       ELSE /\ afterq' = Append(afterq, Callback("completed"))
            /\ workers' = [workers EXCEPT ![w].ph = "finally",
                                          ![w].loc = NoLocals]
    /\ UNCHANGED <<scope, gen, custom_entry, array_size, speed_var, speed, array, comparisons, swaps, is_running, is_paused,
                   is_step_mode, step_requested, current_algorithm,
                   current_step_line, btn, status, ui, budget, hist>>

\* run_algorithm without line 619: is_running stays set
Finally_keeps_running(w) ==
    /\ workers[w].ph = "finally"
    /\ afterq' = Append(afterq, Callback("reset_buttons"))
    /\ workers' = [workers EXCEPT ![w] = [NoWorker EXCEPT !.ph = "dead"]]
    /\ UNCHANGED <<scope, gen, custom_entry, array_size, speed_var, speed, array, comparisons, swaps, is_running, is_paused,
                   is_step_mode, step_requested, current_algorithm,
                   current_step_line, btn, status, ui, budget, hist>>

\* lines 618-620
Finally(w) ==
    /\ workers[w].ph = "finally"
    /\ is_running' = FALSE
    /\ afterq' = Append(afterq, Callback("reset_buttons"))
    /\ workers' = [workers EXCEPT ![w] = [NoWorker EXCEPT !.ph = "dead"]]
    /\ UNCHANGED <<scope, gen, custom_entry, array_size, speed_var, speed, array, comparisons, swaps, is_paused, is_step_mode,
                   step_requested, current_algorithm, current_step_line, btn,
                   status, ui, budget, hist>>

\* an exception that is swallowed before line 610: the run goes on to the
\* completion animation
Raise_completes(w) ==
    /\ workers[w].ph \in {"start", "sleep", "cancel"}
    /\ workers' = [workers EXCEPT ![w].ph = "anim", ![w].loc = NoLocals,
                                   ![w].nap = 0]
    /\ hist' = [hist EXCEPT !.raised = TRUE]
    /\ UNCHANGED <<fields, budget>>

\* lines 607-608 and 616-620: the algorithm raises; run_algorithm's except
\* clause takes it and goes to the finally clause, past lines 610-615
Raise(w) ==
    /\ workers[w].ph \in {"start", "sleep", "cancel"}
    /\ workers' = [workers EXCEPT ![w].ph = "finally", ![w].loc = NoLocals,
                                   ![w].nap = 0]
    /\ hist' = [hist EXCEPT !.raised = TRUE]
    /\ UNCHANGED <<fields, budget>>

(* ---------------------------- specifications --------------------------- *)
UserNext ==
    \/ start_sorting
    \/ step_once
    \/ toggle_pause
    \/ stop_sorting
    \/ generate_array
    \/ on_algorithm_change

UINext == toggle_pause_end \/ RunCallback

WorkerStep(w) ==
    \/ WorkerBegin(w)
    \/ StepWait(w)
    \/ PauseWait(w)
    \/ Sleep(w)
    \/ Cancel(w)
    \/ Animate(w)
    \/ Finally(w)

WorkerNext == \E w \in Workers : WorkerStep(w)

Next == UserNext \/ UINext \/ WorkerNext

Spec == Init /\ [][Next]_vars

(* Uninterrupted runs: a run started with Start and left alone, over every  *)
(* array of length 1..SortLen (the algorithms take any list; the program's  *)
(* own arrays have at least 2 elements).                                    *)
InitSort ==
    InitWith({a \in SeqsUpTo(SortLen) : Len(a) >= 1}, Algorithms, 1)

NextSort ==
    \/ start_sorting
    \/ RunCallback
    \/ \E w \in Workers :
          \/ WorkerBegin(w)
          \/ PauseWait(w)
          \/ Sleep(w)
          \/ Animate(w)
          \/ Finally(w)

SpecSort == InitSort /\ [][NextSort]_vars

(* Relaunches: up to MaxWorkers threads in one behaviour, on the shortest   *)
(* arrays and one algorithm.                                                *)
InitRelaunch ==
    InitWith({<<2, 1>>, <<1, 2>>}, {"Bubble Sort", "Merge Sort"}, MaxWorkers)

SpecRelaunch == InitRelaunch /\ [][Next]_vars

(* Scheduling: every thread that can run gets to run, and the Tk event loop *)
(* runs the queued callbacks and finishes the handler it is in.  One run:   *)
(* Heap Sort is the algorithm that works on after a cancellation, the other *)
(* two return at once.                                                      *)
Fairness ==
    /\ \A w \in Workers : WF_vars(WorkerStep(w))
    /\ WF_vars(UINext)

InitFair ==
    InitWith({<<2, 1>>, <<1, 2>>, <<2, 1, 1>>},
             {"Heap Sort", "Insertion Sort", "Merge Sort"}, 1)

SpecFair == InitFair /\ [][Next]_vars /\ Fairness

(* The import dialog: one run on arrays of one length, with the dialog's    *)
(* operations added to the user's; the user types one of the arrays or a    *)
(* text that is no number.                                                  *)
ImportArrays == {<<2, 1>>, <<1, 2>>, <<1, 1>>}

InitImport ==
    InitScope([arrays |-> ImportArrays, algs |-> {"Bubble Sort", "Heap Sort"},
               render |-> FALSE,
               texts |-> {Entry(a) : a \in ImportArrays} \cup {<<NoNumber>>}],
              1)

NextImport ==
    \/ Next
    \/ import_custom_array
    \/ edit_custom_entry
    \/ process_custom_array
    \/ showerror_closed
    \/ dialog_destroy

SpecImport == InitImport /\ [][NextImport]_vars

(* The speed slider: one uninterrupted run during which the slider may be   *)
(* moved to any of its settings at any time.                                *)
InitSpeed == InitWith({<<2, 1>>}, {"Bubble Sort"}, 1)

NextSpeed ==
    \/ NextSort
    \/ \E s \in Settings : on_speed_change(s)

SpecSpeed == InitSpeed /\ [][NextSpeed]_vars

(* Bubble Sort alone: uninterrupted runs over every array of length        *)
(* 1..SortLen and over every arrangement of the five numbers 5, 2, 9, 1, 3. *)
Arrangements ==
    {a \in [1..5 -> {1, 2, 3, 5, 9}] : \A x, y \in 1..5 : x # y => a[x] # a[y]}

InitBubble ==
    InitWith({a \in SeqsUpTo(SortLen) : Len(a) >= 1} \cup Arrangements,
             {"Bubble Sort"}, 1)

SpecBubble == InitBubble /\ [][NextSort]_vars

(* The import dialog's parser: one uninterrupted Bubble Sort run, before    *)
(* or after which the user types into the dialog every text of up to        *)
(* MaxParts parts (a word that is no number, 0, 1, 1001) and three texts    *)
(* around the limit of 200 numbers: 200 numbers, 201 numbers, and 200       *)
(* numbers followed by a word.                                              *)
ShortTexts ==
    UNION {[1..n -> {NoNumber, Part(0), Part(1), Part(1001)}] : n \in 0..MaxParts}

LongTexts ==
    {[x \in 1..200 |-> Part(IF x = 200 THEN 1001 ELSE 1)],
     [x \in 1..201 |-> Part(IF x = 201 THEN 2 ELSE 1)],
     [x \in 1..201 |-> IF x = 201 THEN NoNumber ELSE Part(1)]}

InitParse ==
    InitScope([arrays |-> {<<2, 1>>}, algs |-> {"Bubble Sort"},
               render |-> FALSE, texts |-> ShortTexts \cup LongTexts], 1)

NextParse ==
    \/ NextSort
    \/ import_custom_array
    \/ edit_custom_entry
    \/ process_custom_array
    \/ showerror_closed
    \/ dialog_destroy

SpecParse == InitParse /\ [][NextParse]_vars

(* Relaunches under the same scheduling, on one array.                      *)
InitRelaunchFair ==
    InitWith({<<2, 1>>}, {"Bubble Sort", "Insertion Sort"}, MaxWorkers)

SpecRelaunchFair == InitRelaunchFair /\ [][Next]_vars /\ Fairness

(* Pause during a run started with Start, with lines 816-833 taken step by *)
(* step: the user pauses, never resumes and may stop.                       *)
Pause == ~is_paused /\ is_running /\ toggle_pause

InitPause == InitWith({<<2, 1>>, <<1, 2>>}, {"Bubble Sort", "Heap Sort"}, 1)

NextPause ==
    \/ start_sorting
    \/ Pause
    \/ toggle_pause_end
    \/ stop_sorting
    \/ RunCallback
    \/ \E w \in Workers :
          \/ WorkerBegin(w)
          \/ StepSleeps(w)
          \/ StepWait(w)
          \/ PauseSleeps(w)
          \/ PauseCheck(w)
          \/ Emit(w)
          \/ Sleep(w)
          \/ Cancel(w)
          \/ Animate(w)
          \/ Finally(w)

SpecPause == InitPause /\ [][NextPause]_vars

(* The two bubble sorts on the same array: first the generator of          *)
(* bubble_sort_visual.py, to its end, then an uninterrupted Bubble Sort run *)
(* of the visualizer.                                                       *)
NextBoth ==
    \/ bubble_sort_steps
    \/ GenNext
    \/ gen.pc = "exhausted" /\ start_sorting
    \/ RunCallback
    \/ \E w \in Workers :
          \/ WorkerBegin(w)
          \/ PauseWait(w)
          \/ Sleep(w)
          \/ Animate(w)
          \/ Finally(w)

SpecBoth == InitBubble /\ [][NextBoth]_vars

(* bubble_sort_steps alone, on every list of length 0..SortLen and every    *)
(* arrangement of the five numbers.                                         *)
InitGen ==
    InitWith(SeqsUpTo(SortLen) \cup Arrangements, {"Bubble Sort"}, 1)

NextGen ==
    \/ bubble_sort_steps
    \/ GenNext

SpecGen == InitGen /\ [][NextGen]_vars

(* Step Events and their rendering: uninterrupted runs in which the        *)
(* callbacks of lines 830-833 are queued and run by the Tk event loop.      *)
InitRender ==
    InitScope([arrays |-> {a \in SeqsUpTo(MaxLen) : Len(a) >= 2},
               algs |-> Algorithms, render |-> TRUE, texts |-> {}], 1)

SpecRender == InitRender /\ [][NextSort]_vars

(* Faults: the algorithm may raise wherever it runs (an IndexError after    *)
(* the array was replaced, a Tk error).                                     *)
NextFault == Next \/ \E w \in Workers : Raise(w)

SpecFault == InitFair /\ [][NextFault]_vars /\ Fairness

(* Uninterrupted runs under the same scheduling, over every array of       *)
(* length 1..MaxLen.                                                        *)
InitTerm ==
    InitWith({a \in SeqsUpTo(MaxLen) : Len(a) >= 1}, Algorithms, 1)

SpecSortFair == InitTerm /\ [][NextSort]_vars /\ Fairness

(* ------------------------------- claims -------------------------------- *)
\* the worker is inside its algorithm (run_algorithm line 608)
Executing(w) ==
    workers[w].ph \in {"start", "stepwait", "pausewait", "emit", "sleep",
                       "cancel"}

\* the worker is asleep in one of visualize_step's two wait loops
Blocked(w) ==
    \/ workers[w].ph = "stepwait" /\ StepBlocks
    \/ workers[w].ph = "pausewait" /\ PauseBlocks

\* Idle: no run active, no worker alive
IdleState == ~is_running /\ LiveWorkers = {}

\* C1: for each of the nine algorithms and every input array, an
\* uninterrupted run ends with the array sorted ascending and multiset-equal
\* to the input.
C1_UninterruptedRunSorts ==
    \A w \in Workers :
        workers[w].ph \in {"anim", "finally"} =>
            /\ IsSorted(array)
            /\ IsPerm(array, workers[w].input)

C1_Witness ==
    \E w \in Workers :
        /\ workers[w].ph = "finally"
        /\ workers[w].alg = "Radix Sort"
        /\ workers[w].input = <<10 + MaxVal, 2, 1, 2>>
        /\ array = <<1, 2, 2, 10 + MaxVal>>

\* C2: at most one worker is active at any time: a new worker thread is
\* launched only when no earlier worker is still executing its algorithm.
C2_AtMostOneWorker ==
    Cardinality({w \in Workers : Executing(w)}) <= 1

\* C3: a Stop() issued at any point of a run leaves the array a permutation
\* of that run's input (no element duplicated, none lost).
C3_StopLeavesPermutation ==
    \A w \in Workers :
        hist.stopped /\ workers[w].ph = "finally" =>
            IsPerm(array, workers[w].input)

\* C4: once a visualize_step call of a worker has returned False, that
\* worker performs no further array write and no further counter increment.
C4_NoWorkAfterCancel ==
    [][\A w \in Workers :
          workers[w].seen /\ workers'[w] # workers[w] =>
              /\ array' = array
              /\ comparisons' = comparisons
              /\ swaps' = swaps]_vars

\* C5: a run launched by StartStepping has one step pre-armed: with no
\* further Step() call its worker delivers the first Step Event before it
\* blocks in the step loop.
C5_FirstStepPreArmed ==
    \A w \in Workers :
        /\ hist.steps = 1
        /\ workers[w].mode = "step"
        /\ workers[w].ph = "stepwait"
        /\ StepBlocks
        => workers[w].delivered >= 1

\* C6: in a single-step run, N Step() calls (the launching one included)
\* deliver never more than N events, and exactly N once the worker has
\* blocked again before the run's end.
C6_StepsDeliverEvents ==
    \A w \in Workers :
        /\ hist.steps > 0 /\ hist.steps < MaxSteps
        /\ workers[w].mode = "step"
        /\ Alive(w)
        => /\ workers[w].delivered <= hist.steps
           /\ Blocked(w) => workers[w].delivered = hist.steps

\* C7: while the controller is paused and a worker is blocked in a wait
\* loop of visualize_step, the worker stays blocked, and the array and the
\* counters stay as they are, until a Step(), a Resume or a Stop().
UserRelease ==
    \/ step_requested' /\ ~step_requested
    \/ is_paused' # is_paused
    \/ hist'.stopped /\ ~is_running'

C7_BlockedUntilReleased ==
    [][\A w \in Workers :
          Blocked(w) /\ ui = "idle" =>
              \/ UserRelease
              \/ /\ Blocked(w)'
                 /\ workers'[w] = workers[w]
                 /\ array' = array
                 /\ comparisons' = comparisons
                 /\ swaps' = swaps]_vars

\* C8: after Stop(), with no further user operation, every worker leaves
\* its wait, observes the cancellation and exits, and the controller is
\* Idle again with Start accepted.
C8_StopReturnsToIdle ==
    hist.stopped ~> (~hist.stopped \/ (IdleState /\ btn.start))

C8_Witness ==
    /\ hist.stopped
    /\ \E w \in Workers : workers[w].ph = "cancel" /\ workers[w].seen

\* C9: in a single-step run a step the worker has consumed releases a Step
\* Event: the worker that left the step loop on a step request does not
\* then sleep in the pause loop.
C9_ConsumedStepReleasesEvent ==
    \A w \in Workers :
        /\ hist.steps > 0
        /\ workers[w].mode = "step"
        /\ workers[w].took
        /\ workers[w].ph = "pausewait"
        => ~PauseBlocks

\* C10: Start and StartStepping launch a worker only from Idle (no run
\* active, no worker alive), then exactly one, with both counters at 0.
C10_LaunchOnlyFromIdle ==
    [][budget' # budget =>
          /\ IdleState
          /\ budget' = budget - 1
          /\ comparisons' = 0
          /\ swaps' = 0]_vars

\* C16: at the end of an uninterrupted run the comparisons counter equals
\* the number of element comparisons the algorithm evaluated (those whose
\* outcome is false and end a loop included).
C16_ComparisonsCountEvaluations ==
    \A w \in Workers :
        workers[w].ph = "anim" => comparisons = workers[w].loc.ev

\* C17: at the end of an uninterrupted run the swaps counter equals the
\* number of writes made to the array, a swap and a single-cell assignment
\* counting one each, in every algorithm.
C17_SwapsCountWrites ==
    \A w \in Workers :
        workers[w].ph = "anim" => swaps = workers[w].loc.wr

\* C14: a run ends Completed or Cancelled, never both: the worker issues the
\* "Completed!" notification only for a run that no Stop() has declared
\* "Stopped".
C14_CompletedOrCancelled ==
    [][\A w \in Workers :
          workers[w].ph = "anim" /\ workers'[w].ph = "finally" =>
              status # "Stopped"]_vars

C19_RunTerminates ==
    is_running ~> (IdleState /\ btn.start)

C19_Witness ==
    /\ IdleState /\ btn.start
    /\ status = "Completed!"
    /\ current_algorithm = "Shell Sort"
    /\ array = <<1, 2, 10 + MaxVal>>
    /\ swaps > 0

\* C20: toggle_pause invoked while no run is active (Idle, or a run that
\* has ended) is a no-op: is_paused is after the call what it was before.
C20_ToggleWhileIdleIsNoOp ==
    [][~is_running /\ ui = "idle" /\ ui' = "toggle" =>
          is_paused' = is_paused]_vars

\* C18: when the algorithm raises, the fault stays in the worker: no
\* "Completed!" notification is issued for the run, and with no further user
\* operation the controller is Idle again (is_running false, no worker
\* alive, controls reset) and accepts Start.
C18_FaultEndsRunCancelled ==
    /\ [](hist.raised =>
            /\ status # "Completed!"
            /\ \A x \in 1..Len(afterq) : afterq[x].cb # "completed")
    /\ hist.raised ~>
          (~hist.raised \/ (IdleState /\ btn.start /\ ui = "idle"))

C18_Witness ==
    /\ hist.raised
    /\ \E w \in Workers : workers[w].ph = "finally" /\ workers[w].delivered >= 1
    /\ is_running /\ is_paused

\* the Tk event loop runs the callbacks of the oldest queued Step Event
Renders ==
    /\ afterq # <<>>
    /\ Head(afterq).cb = "render"
    /\ afterq' = Tail(afterq)

\* C11: the array, the counters and the line the consumer renders for a Step
\* Event (draw_array, update_stats and highlight_code_line read them when
\* they run) are those of the instant the event was emitted: the worker has
\* not changed them between the hand-off and the rendering.
C11_RenderedAsEmitted ==
    [][Renders =>
          /\ array = Head(afterq).arr
          /\ comparisons = Head(afterq).cmp
          /\ swaps = Head(afterq).swp]_vars

\* C12: Step Events are rendered in the order of emission, none twice, and
\* the k-th one rendered highlights the line marker of the k-th one emitted.
C12_RenderedInOrder ==
    [][Renders =>
          /\ \A x \in 2..Len(afterq) :
                afterq[x].cb = "render" => afterq[x].k > Head(afterq).k
          /\ current_step_line = Head(afterq).line]_vars

\* C13: only a worker changes the array and the counters while a run is
\* active: every other operation that changes them (generate_array, the size
\* slider, the import dialog) does so only when the controller is Idle and
\* no worker is still executing.
C13_ReplacedOnlyWhenIdle ==
    [][(/\ workers' = workers
        /\ \/ array' # array
           \/ comparisons' # comparisons
           \/ swaps' # swaps) => IdleState]_vars

\* C23: on_speed_change maps every slider setting s in 1..100 to the delay
\* max(1, 101 - s): the delay is in 1..100, is 1 for s = 100 and 100 for
\* s = 1, and is strictly smaller for a larger setting; the sleep of a
\* suspension point lasts the delay that was set when it began, whatever the
\* slider does while it is in progress.
C23_SetSpeedDelay ==
    /\ [][speed_var' # speed_var \/ speed' # speed =>
              /\ speed' \in 1..100
              /\ speed' = IF 101 - speed_var' > 1 THEN 101 - speed_var' ELSE 1
              /\ speed_var' = 100 => speed' = 1
              /\ speed_var' = 1 => speed' = 100]_vars
    /\ [][speed = 101 - speed_var /\ speed_var' > speed_var =>
              speed' < speed]_vars
    /\ [][\A w \in Workers :
              workers'[w].ph = "sleep" =>
                  workers'[w].nap = IF workers[w].ph = "sleep"
                                    THEN workers[w].nap ELSE speed]_vars

C23_Witness ==
    /\ speed_var = 100 /\ speed = 1
    /\ \E w \in Workers : workers[w].ph = "sleep" /\ workers[w].nap = 100

\* C21: an uninterrupted Merge Sort run on an already-sorted array leaves
\* the array as it was and ends with the swaps counter at 0.
C21_MergeSortedCountsNothing ==
    \A w \in Workers :
        /\ workers[w].ph = "anim"
        /\ workers[w].alg = "Merge Sort"
        /\ IsSorted(workers[w].input)
        => /\ array = workers[w].input
           /\ swaps = 0

\* the pairs of positions of a that are out of order
Inversions(a) ==
    Cardinality({p \in (1..Len(a)) \X (1..Len(a)) :
                    p[1] < p[2] /\ a[p[1]] > a[p[2]]})

\* the sum of n - 1 - q over the passes q = 0..p
RECURSIVE PassSum(_, _)
PassSum(n, p) == IF p < 0 THEN 0 ELSE (n - 1 - p) + PassSum(n, p - 1)

\* C22: an uninterrupted Bubble Sort run ends with swaps equal to the number
\* of inversions of the input and comparisons equal to the sum of n - 1 - i
\* over the passes i it executed (it leaves the loop in its last pass, at
\* the call of line 11); on [5, 2, 9, 1, 3] it ends with [1, 2, 3, 5, 9],
\* comparisons = 10 and swaps = 6.
C22_BubbleCounts ==
    \A w \in Workers :
        workers[w].alg = "Bubble Sort" =>
            /\ workers[w].ph \in {"pausewait", "sleep"}
               /\ workers[w].loc.pc = "b11"
               => /\ comparisons = PassSum(Len(array), workers[w].loc.i)
                  /\ swaps = Inversions(workers[w].input)
            /\ workers[w].ph = "anim"
               => /\ swaps = Inversions(workers[w].input)
                  /\ \E p \in 0..(Len(array) - 1) :
                        comparisons = PassSum(Len(array), p)
                  /\ workers[w].input = <<5, 2, 9, 1, 3>>
                     => /\ array = <<1, 2, 3, 5, 9>>
                        /\ comparisons = 10
                        /\ swaps = 6

C22_Witness ==
    \E w \in Workers :
        /\ workers[w].ph = "anim"
        /\ workers[w].input = <<5, 2, 9, 1, 3>>
        /\ array = <<1, 2, 3, 5, 9>>
        /\ comparisons = 10
        /\ swaps = 6

\* the entered text has fewer than 2 parts, a part that is no number, or a
\* number below 1
InvalidEntry ==
    \/ Len(custom_entry) < 2
    \/ \E x \in 1..Len(custom_entry) :
          ~custom_entry[x].num \/ custom_entry[x].val < 1

\* C24: when the import dialog is left or answers with its error box, an
\* invalid text has left the array, the array size and both counters as
\* they were; a valid text has either done the same (Cancel) or replaced the
\* array by its first 200 numbers, each above 1000 taken as 1000: an array
\* of length 2..200 with elements in 1..1000, with the array size set to its
\* length.
C24_ImportValidated ==
    [][ui = "dialog" /\ ui' # "dialog" =>
          \/ /\ array' = array
             /\ array_size' = array_size
             /\ comparisons' = comparisons
             /\ swaps' = swaps
          \/ /\ ~InvalidEntry
             /\ Len(array') \in 2..200
             /\ Len(array') = IF Len(custom_entry) > 200 THEN 200
                              ELSE Len(custom_entry)
             /\ \A x \in 1..Len(array') :
                   /\ array'[x] \in 1..1000
                   /\ array'[x] = IF custom_entry[x].val > 1000 THEN 1000
                                  ELSE custom_entry[x].val
             /\ array_size' = Len(array')]_vars

C24_Witness ==
    /\ ui = "error"
    /\ Len(custom_entry) = 201
    /\ array = <<1, 2>>
    /\ comparisons > 0 /\ swaps > 0

\* C25: between two consecutive visualize_step calls of a run (and before
\* the first, and after the last) an algorithm increments its counters at
\* most once: no two counted operations without a suspension point between
\* them.
C25_SuspensionPerCountedOperation ==
    [][workers' # workers =>
          (comparisons' - comparisons) + (swaps' - swaps) <= 1]_vars

\* C26: the "Completed!" notification is issued only by a worker whose
\* algorithm ran to the end of a full sort: the array is sorted ascending
\* when it is issued, and no visualize_step call of that worker has returned
\* False.
C26_CompletedOnlyAfterFullSort ==
    [][\A w \in Workers :
          workers[w].ph = "anim" /\ workers'[w].ph = "finally" =>
              /\ IsSorted(array)
              /\ ~workers[w].seen]_vars

\* C27: when a run is active and paused, a worker is in a wait loop of
\* visualize_step and a Step() has been requested, the worker goes on to
\* deliver a Step Event, unless the run ends or is resumed first.
C27_StepLeadsToEvent ==
    (/\ is_running /\ is_paused /\ step_requested
     /\ \E w \in Workers : workers[w].ph \in {"stepwait", "pausewait"})
    ~> (\/ ~is_running
        \/ ~is_paused
        \/ \E w \in Workers : workers[w].ph = "sleep")

\* C28: once is_paused is set during a run, the worker delivers at most one
\* more Step Event before it sleeps in a wait loop of visualize_step.
C28_AtMostOneEventAfterPause ==
    \A w \in Workers : workers[w].ran <= 1

\* C29: while a worker runs Bubble, Selection, Quick or Heap Sort, and after
\* a Stop() at any point of its run, the array is a permutation of the run's
\* input, as long as the worker lives (one worker per behaviour).
C29_SwapOnlyKeepsPermutation ==
    \A w \in Workers :
        /\ Alive(w)
        /\ workers[w].alg \in {"Bubble Sort", "Selection Sort", "Quick Sort",
                               "Heap Sort"}
        => IsPerm(array, workers[w].input)

\* the number of steps of one kind the generator has yielded
CountSteps(steps, action) ==
    Cardinality({x \in 1..Len(steps) : steps[x].action = action})

\* C30: both bubble sorts stop after the first inner pass without a swap. The
\* visualizer's starts a pass after the first only when the pass before it
\* swapped, is at the call of line 11 only after a pass without a swap, and
\* from there returns with the array, the counters, the comparisons evaluated
\* and the writes made as they were; the generator starts a new pass only
\* when the pass before it swapped, and its 'done' step leaves the list as it
\* was. On a sorted input of length n >= 2 an uninterrupted run of the
\* visualizer ends with n - 1 comparisons, counted and evaluated, 0 swaps and
\* 0 writes, and the generator yields n - 1 'compare' steps and no 'swap'
\* step.
C30_BubbleEarlyExit ==
    /\ [](\A w \in Workers :
            workers[w].alg = "Bubble Sort" =>
                /\ workers[w].loc.pc = "b4" /\ workers[w].loc.i > 0
                   => workers[w].loc.flag
                /\ workers[w].loc.pc = "b11" => ~workers[w].loc.flag
                /\ /\ workers[w].ph = "anim"
                   /\ IsSorted(workers[w].input)
                   /\ Len(workers[w].input) >= 2
                   => /\ comparisons = Len(workers[w].input) - 1
                      /\ swaps = 0
                      /\ workers[w].loc.ev = Len(workers[w].input) - 1
                      /\ workers[w].loc.wr = 0)
    /\ [](/\ gen.pc \in {"done", "exhausted"}
          /\ IsSorted(gen.arr)
          /\ Len(gen.arr) >= 2
          => /\ CountSteps(gen.steps, "compare") = Len(gen.arr) - 1
             /\ CountSteps(gen.steps, "swap") = 0)
    /\ [][/\ \A w \in Workers :
               /\ workers[w].loc.pc = "b11"
               /\ workers'[w].loc # workers[w].loc
               => /\ workers'[w].ph \in {"anim", "finally"}
                  /\ workers'[w].ph = "anim"
                     => /\ workers'[w].loc.ev = workers[w].loc.ev
                        /\ workers'[w].loc.wr = workers[w].loc.wr
                  /\ array' = array
                  /\ comparisons' = comparisons
                  /\ swaps' = swaps
          /\ gen'.passnum > gen.passnum => gen.made_swap
          /\ gen.pc \in {"compare", "swap"} /\ gen'.pc = "done"
             => gen'.a = gen.a]_vars

C30_Witness ==
    \E w \in Workers :
        /\ workers[w].ph = "anim"
        /\ workers[w].input = <<1, 2, 3, 5, 9>>
        /\ workers[w].loc.ev = 4
        /\ workers[w].loc.wr = 0
        /\ comparisons = 4
        /\ swaps = 0
        /\ gen.pc = "exhausted"
        /\ gen.arr = <<1, 2, 3, 5, 9>>
        /\ Len(gen.steps) = 5

\* the worker is suspended in a visualize_step call of bubble_sort
AtBubbleSite(w) ==
    /\ workers[w].alg = "Bubble Sort"
    /\ workers[w].ph \in {"stepwait", "pausewait", "sleep"}
    /\ workers[w].loc.pc \in {"b4", "b7", "b8", "b11"}

\* C31: at every suspension point of Bubble Sort's pass i the last i
\* positions hold, in ascending order, elements that are each at least as
\* large as every element before them (the i largest), and no step of the
\* run writes one of those positions again.
C31_BubbleTrailingSorted ==
    /\ [](\A w \in Workers :
            AtBubbleSite(w) =>
                LET n == Len(array)
                    i == workers[w].loc.i
                IN  /\ i <= n
                    /\ \A k \in (n - i + 1)..n :
                          /\ \A x \in 1..(n - i) : array[x] <= array[k]
                          /\ k < n => array[k] <= array[k + 1])
    /\ [][\A w \in Workers :
            AtBubbleSite(w) =>
                /\ Len(array') = Len(array)
                /\ \A k \in (Len(array) - workers[w].loc.i + 1)..Len(array) :
                      array'[k] = array[k]]_vars

C31_Witness ==
    \E w \in Workers :
        /\ AtBubbleSite(w)
        /\ workers[w].loc.pc = "b8"
        /\ workers[w].loc.i = 2
        /\ workers[w].input = <<9, 5, 3, 2, 1>>
        /\ array = <<2, 3, 1, 5, 9>>

\* C32: Selection Sort writes the array only on arriving at the call of line
\* 9, after the scan of an outer iteration i: that write exchanges position i
\* with another position that held a minimum of array[i..n-1], and is one
\* swap; an iteration i has made at most i swaps before its own and at most
\* i + 1 with it; an uninterrupted run ends with at most n - 1 swaps and
\* n(n-1)/2 comparisons, counted and evaluated.
C32_SelectionSwapsAfterScan ==
    /\ [](\A w \in Workers :
            workers[w].alg = "Selection Sort" =>
                /\ workers[w].loc.pc \in {"s4", "s7", "s8"}
                   => swaps <= workers[w].loc.i /\ workers[w].loc.wr = swaps
                /\ workers[w].loc.pc = "s9"
                   => swaps <= workers[w].loc.i + 1
                /\ workers[w].ph = "anim"
                   => /\ swaps <= Len(array) - 1
                      /\ workers[w].loc.wr = swaps
                      /\ 2 * comparisons = Len(array) * (Len(array) - 1)
                      /\ workers[w].loc.ev = comparisons)
    /\ [][\A w \in Workers :
            /\ workers[w].alg = "Selection Sort"
            /\ array' # array
            => LET l == workers[w].loc
                   l2 == workers'[w].loc
               IN  /\ l.pc \in {"s7", "s8"}
                   /\ l2.pc = "s9"
                   /\ l2.i = l.i
                   /\ l2.key # l2.i
                   /\ l2.key \in l2.i..(Len(array) - 1)
                   /\ \A x \in l2.i..(Len(array) - 1) :
                         At(array, l2.key) <= At(array, x)
                   /\ array' = Swap(array, l2.i, l2.key)
                   /\ swaps' = swaps + 1]_vars

C32_Witness ==
    \E w \in Workers :
        /\ workers[w].alg = "Selection Sort"
        /\ workers[w].ph = "anim"
        /\ Len(array) = 4
        /\ swaps = 3
        /\ comparisons = 6

\* the worker is suspended in a visualize_step call of partition
InPartition(l) == l.pc \in {"q9", "q11", "q12", "q13"}

\* the range a pending quick_sort call [l, r, p, st] has recursed on
Recursed(f) ==
    IF f.st = 1 THEN <<f.l, f.p - 1>> ELSE <<f.p + 1, f.r>>

\* C33: in an uninterrupted Quick Sort run, partition(low, high) runs with
\* low < high on the whole array or on the range [low, p-1] or [p+1, high]
\* of the pending quick_sort call above it, whose p lies in its [low, high];
\* its pivot is array[high] as it was at the call and stays at high until
\* the last swap; its steps only exchange two positions of [low, high]; and
\* when it is about to return p = i + 1 (line 13), low <= p <= high,
\* array[p] is the pivot, array[low..p-1] <= pivot and array[p+1..high] >
\* pivot. After it returns quick_sort recurses on [low, p-1] if that range
\* has two elements or more, else on [p+1, high], and the run ends sorted.
C33_PartitionPostcondition ==
    /\ [](\A w \in Workers :
            workers[w].alg = "Quick Sort" =>
                LET l == workers[w].loc
                    p == l.i + 1
                    n == Len(l.stk)
                IN  /\ InPartition(l) =>
                          /\ 0 <= l.k /\ l.k < l.g /\ l.g < Len(array)
                          /\ IF n = 0 THEN <<l.k, l.g>> = <<0, Len(array) - 1>>
                             ELSE <<l.k, l.g>> = Recursed(l.stk[n])
                          /\ \A x \in 1..n :
                                /\ l.stk[x].l <= l.stk[x].p
                                /\ l.stk[x].p <= l.stk[x].r
                                /\ x > 1 => <<l.stk[x].l, l.stk[x].r>>
                                            = Recursed(l.stk[x - 1])
                    /\ l.pc \in {"q9", "q11", "q12"} => At(array, l.g) = l.key
                    /\ l.pc = "q13" =>
                          /\ l.k <= p /\ p <= l.g
                          /\ At(array, p) = l.key
                          /\ \A x \in l.k..(p - 1) : At(array, x) <= l.key
                          /\ \A x \in (p + 1)..l.g : At(array, x) > l.key
                    /\ workers[w].ph = "anim" => IsSorted(array))
    /\ [][\A w \in Workers :
            workers[w].alg = "Quick Sort" =>
                LET l == workers[w].loc
                    l2 == workers'[w].loc
                IN  /\ InPartition(l) /\ l2.pc \in {"q11", "q12", "q13"}
                       => l2.k = l.k /\ l2.g = l.g /\ l2.key = l.key
                    /\ array' # array
                       => /\ InPartition(l) /\ l2.pc \in {"q12", "q13"}
                          /\ \E x, y \in l.k..l.g : array' = Swap(array, x, y)
                          /\ IsPerm(array', array)
                          /\ \A x \in 0..(Len(array) - 1) :
                                x < l.k \/ x > l.g => At(array', x) = At(array, x)
                    /\ l.pc = "q13" /\ l2 # l
                       => IF l.k < l.i
                          THEN l2.pc = "q9" /\ l2.k = l.k /\ l2.g = l.i
                          ELSE IF l.i + 2 < l.g
                          THEN l2.pc = "q9" /\ l2.k = l.i + 2 /\ l2.g = l.g
                          ELSE l2.pc = "q9" => l2.k > l.g]_vars

C33_Witness ==
    \E w \in Workers :
        /\ workers[w].alg = "Quick Sort"
        /\ workers[w].loc.pc = "q13"
        /\ workers[w].loc.stk # <<>>
        /\ workers[w].loc.k = 2
        /\ workers[w].loc.g = 3
        /\ workers[w].loc.i = 1
        /\ array # workers[w].input

\* the first n positions of a are a max-heap
MaxHeap(a, n) ==
    \A c \in 1..(n - 1) : At(a, (c - 1) \div 2) >= At(a, c)

\* the positions from i on hold, ascending, elements at least as large as
\* every element before them
LargestAscendingFrom(a, i) ==
    \A x \in i..(Len(a) - 1) :
        /\ \A y \in 0..(i - 1) : At(a, y) <= At(a, x)
        /\ x + 1 < Len(a) => At(a, x) <= At(a, x + 1)

\* C34: in an uninterrupted Heap Sort run, at the call of line 7 for the
\* extraction index i, taking back the swap of lines 1207 made just before
\* it, array[0..i] is a max-heap (the whole array when i = n - 1, after the
\* build phase; after the extraction step for i + 1 otherwise) and
\* array[i+1..n-1] holds the largest elements in ascending order; with that
\* swap array[i..n-1] does; the run ends sorted. heapify moves on to a child
\* only from the call of line 17, which it reaches only by a swap.
C34_HeapInvariants ==
    /\ [](\A w \in Workers :
            workers[w].alg = "Heap Sort" =>
                LET l == workers[w].loc IN
                /\ l.pc = "h7" =>
                      /\ 1 <= l.k /\ l.k < Len(array)
                      /\ MaxHeap(Swap(array, 0, l.k), l.k + 1)
                      /\ LargestAscendingFrom(Swap(array, 0, l.k), l.k + 1)
                      /\ LargestAscendingFrom(array, l.k)
                /\ workers[w].ph = "anim" => IsSorted(array))
    /\ [][\A w \in Workers :
            workers[w].alg = "Heap Sort" =>
                LET l == workers[w].loc
                    l2 == workers'[w].loc
                IN  /\ /\ l.pc \in {"h12", "h14", "h17"}
                       /\ l2.pc \in {"h12", "h14", "h17"}
                       /\ l2.k = l.k
                       /\ l2.i # l.i
                       => /\ l.pc = "h17"
                          /\ l2.i = l.key
                          /\ l2.g = l.g
                    /\ l2.pc = "h17" /\ l2 # l
                       => /\ l2.key # l2.i
                          /\ array' = Swap(array, l2.i, l2.key)
                          /\ array' # array
                          /\ swaps' = swaps + 1]_vars

C34_Witness ==
    \E w \in Workers :
        /\ workers[w].alg = "Heap Sort"
        /\ workers[w].loc.pc = "h7"
        /\ workers[w].loc.k = 2
        /\ Len(array) = 4
        /\ workers[w].input # array
        /\ ~IsSorted(workers[w].input)
        /\ MaxHeap(Swap(array, 0, 2), 3)

\* the worker is suspended in a visualize_step call of merge
InMerge(l) == l.pc \in {"m11", "m12a", "m14a", "m12b", "m14b"}

\* merge's left bound: k counts the cells written but, at the calls of
\* lines 12 and 14 of the comparison loop, not yet the last one
MergeLeft(l) ==
    IF l.pc \in {"m12a", "m14a"} THEN l.k - l.i - l.j + 1
    ELSE l.k - l.i - l.j

\* C35: in an uninterrupted Merge Sort run, at every suspension point of
\* merge both runs are sorted, the cells written so far are the sorted
\* arrangement of the elements taken from the heads of the two runs, and the
\* cells of [left, right] not yet written hold what they held at the call.
\* At the comparison of line 1120 the left head is written when it is <= the
\* right head, the right head otherwise; whenever a right element is written
\* every left element still to be written is greater, so elements with equal
\* keys keep their order; the loops of lines 1133 and 1141 copy the rest of
\* the one side that is left, in order; every write of the run is one cell
\* of [left, right], the next one; the run ends sorted.
C35_MergeStable ==
    /\ [](\A w \in Workers :
            workers[w].alg = "Merge Sort" =>
                LET l == workers[w].loc
                    left == MergeLeft(l)
                    both == l.la \o l.ra
                IN  /\ InMerge(l) =>
                          /\ IsSorted(l.la) /\ IsSorted(l.ra)
                          /\ l.la # <<>> /\ l.ra # <<>>
                          /\ 0 <= left /\ left + Len(both) <= Len(array)
                          /\ l.i <= Len(l.la) /\ l.j <= Len(l.ra)
                          /\ IsSorted(Slice(array, left, left + l.i + l.j))
                          /\ IsPerm(Slice(array, left, left + l.i + l.j),
                                    SubSeq(l.la, 1, l.i) \o SubSeq(l.ra, 1, l.j))
                          /\ \A x \in (l.i + l.j + 1)..Len(both) :
                                array[left + x] = both[x]
                    /\ workers[w].ph = "anim" => IsSorted(array))
    /\ [][\A w \in Workers :
            workers[w].alg = "Merge Sort" =>
                LET l == workers[w].loc
                    l2 == workers'[w].loc
                IN  /\ l.pc = "m11" /\ l2 # l
                       => /\ l2.la = l.la /\ l2.ra = l.ra
                          /\ IF At(l.la, l.i) <= At(l.ra, l.j)
                             THEN /\ l2.pc = "m12a"
                                  /\ array' = Put(array, l.k, At(l.la, l.i))
                                  /\ l2.i = l.i + 1 /\ l2.j = l.j
                             ELSE /\ l2.pc = "m14a"
                                  /\ array' = Put(array, l.k, At(l.ra, l.j))
                                  /\ l2.j = l.j + 1 /\ l2.i = l.i
                    /\ l2.pc \in {"m14a", "m14b"} /\ l2 # l
                       => \A x \in l2.i..(Len(l2.la) - 1) :
                             At(l2.la, x) > At(l2.ra, l2.j - 1)
                    /\ l2.pc = "m12b" /\ l2 # l
                       => /\ InMerge(l) /\ l2.la = l.la /\ l2.ra = l.ra
                          /\ l2.j = Len(l2.ra) /\ l2.j = l.j
                          /\ l2.i = l.i + 1
                          /\ array' = Put(array, MergeLeft(l) + l.i + l.j,
                                          At(l.la, l.i))
                    /\ l2.pc = "m14b" /\ l2 # l
                       => /\ InMerge(l) /\ l2.la = l.la /\ l2.ra = l.ra
                          /\ l2.i = Len(l2.la) /\ l2.i = l.i
                          /\ l2.j = l.j + 1
                          /\ array' = Put(array, MergeLeft(l) + l.i + l.j,
                                          At(l.ra, l.j))
                    /\ array' # array
                       => l2.pc \in {"m12a", "m14a", "m12b", "m14b"}]_vars

C35_Witness ==
    \E w \in Workers :
        /\ workers[w].alg = "Merge Sort"
        /\ workers[w].loc.pc = "m12a"
        /\ workers[w].loc.la = <<1, 2>>
        /\ workers[w].loc.ra = <<1, 2>>
        /\ workers[w].loc.i = 2
        /\ workers[w].loc.j = 1
        /\ array = <<1, 1, 2, 2>>
        /\ workers[w].input = <<2, 1, 2, 1>>

\* the elements of a whose digit at exp is d, in the order they have in a
WithDigit(a, exp, d) ==
    LET HasDigit(v) == Digit(v, exp) = d IN SelectSeq(a, HasDigit)

\* out is a sorted by the digit at exp, elements with the same digit in the
\* order they have in a
StableByDigit(out, a, exp) ==
    /\ Len(out) = Len(a)
    /\ \A x \in 1..(Len(out) - 1) : Digit(out[x], exp) <= Digit(out[x + 1], exp)
    /\ \A d \in 0..9 : WithDigit(out, exp, d) = WithDigit(a, exp, d)

\* a is ascending by value mod e
SortedMod(a, e) == \A x \in 1..(Len(a) - 1) : a[x] % e <= a[x + 1] % e

\* C36: an uninterrupted Radix Sort run starts with the pass for exponent 1
\* and, when the pass for e has copied its last cell, goes on with the pass
\* for 10e if 10e <= max(array) and ends otherwise, so that every pass has
\* e <= max(array); the output a pass builds from the array it counted is
\* that array sorted by the digit at e with equal digits in their old order;
\* the copy-back writes the output cell by cell, and when the last cell is
\* written the array is the output and is ascending by value mod 10e; the
\* run ends sorted.
C36_RadixPasses ==
    /\ [](\A w \in Workers :
            workers[w].alg = "Radix Sort" =>
                LET l == workers[w].loc IN
                /\ l.pc \in {"r11", "r13"} =>
                      /\ l.g \in {1, 10, 100, 1000}
                      /\ l.g <= l.key
                      /\ l.key = MaxOf(workers[w].input)
                      /\ l.i < Len(array)
                /\ l.pc = "r13" =>
                      /\ \A x \in 0..l.i : At(array, x) = At(l.ra, x)
                      /\ l.i = Len(array) - 1
                         => array = l.ra /\ SortedMod(array, 10 * l.g)
                /\ workers[w].ph = "anim" => IsSorted(array))
    /\ [][\A w \in Workers :
            workers'[w].alg = "Radix Sort" /\ workers'[w].loc # workers[w].loc
            => LET l == workers[w].loc
                   l2 == workers'[w].loc
               IN  /\ workers[w].ph = "start"
                      => l2.pc = "r11" /\ l2.g = 1 /\ l2.i = 0
                   /\ l.pc = "r11" /\ l2.pc = "r11"
                      => array' = array /\ l2.g = l.g /\ l2.i = l.i + 1
                   /\ l.pc = "r11" /\ l2.pc = "r13"
                      => /\ l.i = Len(array) - 1
                         /\ l2.g = l.g /\ l2.i = 0
                         /\ StableByDigit(l2.ra, array, l.g)
                   /\ l.pc = "r13" /\ l2.pc = "r13"
                      => l2.g = l.g /\ l2.ra = l.ra /\ l2.i = l.i + 1
                   /\ l.pc = "r13" /\ l.i = Len(array) - 1
                      => IF 10 * l.g <= l.key
                         THEN l2.pc = "r11" /\ l2.g = 10 * l.g /\ l2.i = 0
                         ELSE workers'[w].ph = "anim"
                   /\ l.pc = "r13" /\ l2.pc = "r11"
                      => l.i = Len(array) - 1]_vars

C36_Witness ==
    \E w \in Workers :
        /\ workers[w].alg = "Radix Sort"
        /\ workers[w].input = <<12, 2, 1, 2>>
        /\ workers[w].loc.pc = "r13"
        /\ workers[w].loc.g = 1
        /\ workers[w].loc.i = 3
        /\ array = <<1, 12, 2, 2>>

\* C37: bubble_sort_steps(arr) never changes arr; a step, once yielded, is
\* never changed, and the snapshot of the step just yielded is the working
\* list as it is then; no 'done' step is yielded before the generator is
\* suspended at its last yield, and from then on there is exactly one, the
\* last step, with indices (-1, -1) and arr sorted ascending as snapshot;
\* for len(arr) <= 1 it is the only step; after it the generator is
\* exhausted and yields nothing more.
C37_GeneratorSteps ==
    /\ [](/\ gen.pc \in {"compare", "swap"}
             => /\ CountSteps(gen.steps, "done") = 0
                /\ gen.steps # <<>>
          /\ gen.pc \in {"compare", "swap", "done"}
             => /\ gen.steps[Len(gen.steps)].arr = gen.a
                /\ gen.steps[Len(gen.steps)].action = gen.pc
          /\ gen.pc \in {"done", "exhausted"}
             => LET last == gen.steps[Len(gen.steps)] IN
                /\ CountSteps(gen.steps, "done") = 1
                /\ last.action = "done"
                /\ last.i = -1 /\ last.j = -1
                /\ IsSorted(last.arr)
                /\ IsPerm(last.arr, gen.arr)
                /\ Len(gen.arr) <= 1 => Len(gen.steps) = 1)
    /\ [][/\ gen.pc # "none" => gen'.arr = gen.arr
          /\ Len(gen'.steps) \in {Len(gen.steps), Len(gen.steps) + 1}
          /\ \A x \in 1..Len(gen.steps) : gen'.steps[x] = gen.steps[x]
          /\ gen.pc = "done" => gen'.pc = "exhausted" /\ gen'.steps = gen.steps
          /\ gen.pc = "exhausted" => gen' = gen]_vars

C37_Witness ==
    /\ gen.pc = "exhausted"
    /\ gen.arr = <<5, 2, 9, 1, 3>>
    /\ gen.steps[Len(gen.steps)]
         = [action |-> "done", i |-> -1, j |-> -1, arr |-> <<1, 2, 3, 5, 9>>]
    /\ gen.steps[2]
         = [action |-> "swap", i |-> 0, j |-> 1, arr |-> <<2, 5, 9, 1, 3>>]
    /\ CountSteps(gen.steps, "done") = 1

\* C38: the generator having run to its end on the array, an uninterrupted
\* Bubble Sort run of the visualizer on the same array emits, as its k-th
\* line-7 or line-8 event, the generator's k-th step: a line-7 event on
\* (j, j+1) is a 'compare' step and a line-8 event a 'swap' step with the
\* same indices and the same array contents; the run ends with as many such
\* events as the generator yielded steps before 'done', and with the array
\* of the 'done' step.
C38_BubbleSortsAgree ==
    \A w \in Workers :
        /\ workers[w].alg = "Bubble Sort"
        /\ gen.pc = "exhausted"
        /\ gen.arr = workers[w].input
        => LET l == workers[w].loc IN
           /\ AtBubbleSite(w) /\ l.pc = "b7"
              => /\ l.ev + l.wr + 1 < Len(gen.steps)
                 /\ gen.steps[l.ev + l.wr + 1]
                      = [action |-> "compare", i |-> l.j, j |-> l.j + 1,
                         arr |-> array]
           /\ AtBubbleSite(w) /\ l.pc = "b8"
              => /\ l.ev + l.wr < Len(gen.steps)
                 /\ gen.steps[l.ev + l.wr]
                      = [action |-> "swap", i |-> l.j, j |-> l.j + 1,
                         arr |-> array]
           /\ workers[w].ph = "anim"
              => /\ l.ev + l.wr = Len(gen.steps) - 1
                 /\ gen.steps[Len(gen.steps)].arr = array

C38_Witness ==
    \E w \in Workers :
        /\ workers[w].ph = "anim"
        /\ workers[w].input = <<5, 2, 9, 1, 3>>
        /\ gen.pc = "exhausted"
        /\ gen.arr = <<5, 2, 9, 1, 3>>
        /\ Len(gen.steps) = 17
        /\ workers[w].loc.ev = 10
        /\ workers[w].loc.wr = 6
        /\ array = <<1, 2, 3, 5, 9>>

====
